---- MODULE Spec2Model ----
(***************************************************************************)
(* Model of the corpus indexing and synchronisation engine of              *)
(* knowledge-miner (src/app/indexer.py) together with the catalog table    *)
(* (src/app/models.py) and the SQLAlchemy session the engine is handed,    *)
(* and of the search of src/app/search.py as the CLI (src/cli.py) and the  *)
(* results route use it, of the consolidation of src/app/consolidator.py   *)
(* and of the configuration of src/app/config.py.                          *)
(*                                                                         *)
(* Spec is the engine under a changing corpus; ScenarioSpec a logged test  *)
(* scenario of full syncs; WalkSpec walk_corpus alone over drawn trees;    *)
(* TreeSpec the sync calls over drawn trees; SearchSpec a full sync        *)
(* followed by searches; ExportSpec a full sync and calls of               *)
(* consolidate_files; HashSpec full syncs over catalogs written by others; *)
(* ConcurrentSpec two sessions syncing at once; ConfigSpec calls of        *)
(* load_config; PageSpec one request for a page of search results.         *)
(*                                                                         *)
(* Strings are sequences of one-character strings so that suffix           *)
(* extraction, lower-casing, glob matching, joining and splitting of       *)
(* paths are computed the way the code computes them.                      *)
(***************************************************************************)
EXTENDS Integers, Sequences, FiniteSets, TLC

(***************************************************************************)
(* Bounds of the model.                                                    *)
(***************************************************************************)
MaxRuns == 2
MaxFsOps == 2
NumContents == 2
\* the number of sync calls of a test scenario
ScenarioRuns == 3
\* the number of sync calls before the searches, and the largest --limit
SearchRuns == 1
MaxLimit == 2
\* calls of consolidate_files
MaxExports == 2
\* sync calls made with no caller discipline
ConcurrentRuns == 2
\* the largest number of rows a search matches
MaxTotal == 201

(***************************************************************************)
(* Characters.  Alphabet lists the characters used by the model in         *)
(* ascending code-point order; Code is the (order preserving) rank.        *)
(***************************************************************************)
Alphabet ==
    << " ", "$", "(", ")", ".", "/", "D", "M", "S", "T", "X", "_",
       "a", "b", "c", "d", "e", "g", "h", "i", "l", "m", "n", "o", "p",
       "r", "s", "t", "u", "x", "y", "~" >>

Code(c) == CHOOSE i \in 1..Len(Alphabet) : Alphabet[i] = c

Lower(c) ==
    CASE c = "D" -> "d"
      [] c = "M" -> "m"
      [] c = "S" -> "s"
      [] c = "T" -> "t"
      [] c = "X" -> "x"
      [] OTHER -> c

StrLower(s) == [i \in 1..Len(s) |-> Lower(s[i])]

StartsWithDot(s) == Len(s) >= 1 /\ s[1] = "."

\* lexicographic comparison of two strings by code point: s < t
RECURSIVE StrLess(_, _)
StrLess(s, t) ==
    IF t = << >> THEN FALSE
    ELSE IF s = << >> THEN TRUE
    ELSE IF s[1] # t[1] THEN Code(s[1]) < Code(t[1])
    ELSE StrLess(Tail(s), Tail(t))

\* comparison of two pathlib paths: lexicographic on the tuples of parts
RECURSIVE PartsLess(_, _)
PartsLess(p, q) ==
    IF q = << >> THEN FALSE
    ELSE IF p = << >> THEN TRUE
    ELSE IF p[1] # q[1] THEN StrLess(p[1], q[1])
    ELSE PartsLess(Tail(p), Tail(q))

\* sorted(S) for a finite set of paths
RECURSIVE SortedPaths(_)
SortedPaths(S) ==
    IF S = {} THEN << >>
    ELSE LET m == CHOOSE x \in S : \A y \in S \ {x} : PartsLess(x, y)
         IN  << m >> \o SortedPaths(S \ {m})

\* str(path): the parts joined with "/"
RECURSIVE JoinParts(_)
JoinParts(parts) ==
    IF parts = << >> THEN << >>
    ELSE IF Len(parts) = 1 THEN parts[1]
    ELSE parts[1] \o << "/" >> \o JoinParts(Tail(parts))

\* Path(s).parts for a relative POSIX path string
RECURSIVE SplitFrom(_, _, _)
SplitFrom(s, i, cur) ==
    IF i > Len(s) THEN (IF cur = << >> THEN << >> ELSE << cur >>)
    ELSE IF s[i] = "/"
         THEN (IF cur = << >> THEN << >> ELSE << cur >>) \o SplitFrom(s, i + 1, << >>)
         ELSE SplitFrom(s, i + 1, Append(cur, s[i]))

PathParts(s) == SplitFrom(s, 1, << >>)

\* Path.suffix of a final component: from the last dot, unless that dot
\* is the first or the last character
LastDot(name) ==
    LET D == {i \in 1..Len(name) : name[i] = "."}
    IN  IF D = {} THEN 0 ELSE CHOOSE i \in D : \A j \in D : j <= i

Suffix(name) ==
    LET i == LastDot(name)
    IN  IF 1 < i /\ i < Len(name) THEN SubSeq(name, i, Len(name)) ELSE << >>

\* fnmatch.fnmatch(name, pat) for patterns made of literals, "*" and "?"
RECURSIVE Fnmatch(_, _)
Fnmatch(name, pat) ==
    IF pat = << >> THEN name = << >>
    ELSE IF pat[1] = "*"
         THEN \/ Fnmatch(name, Tail(pat))
              \/ (name # << >> /\ Fnmatch(Tail(name), pat))
    ELSE IF name = << >> THEN FALSE
    ELSE IF pat[1] = "?" THEN Fnmatch(Tail(name), Tail(pat))
    ELSE name[1] = pat[1] /\ Fnmatch(Tail(name), Tail(pat))

DEFAULT_SKIP_PATTERNS ==
    << << "~", "$", "*" >>,
       << "*", ".", "t", "m", "p" >>,
       << "T", "h", "u", "m", "b", "s", ".", "d", "b" >>,
       << ".", "D", "S", "_", "S", "t", "o", "r", "e" >> >>

DEFAULT_SUPPORTED_EXTENSIONS ==
    << << ".", "m", "d" >>,
       << ".", "d", "o", "c", "x" >>,
       << ".", "x", "l", "s", "x" >>,
       << ".", "p", "d", "f" >>,
       << ".", "v", "s", "d", "x" >>,
       << ".", "t", "x", "t" >>,
       << ".", "c", "s", "v" >> >>

\* a nullable value: None, or Some(x)
None == << >>

Some(x) == << x >>

_should_skip(name, skip_patterns) ==
    \E k \in 1..Len(skip_patterns) : Fnmatch(name, skip_patterns[k])

\* mutant: the section is the directory the file sits in
determine_corpus_section_of_parent(relative_path) ==
    LET parts == PathParts(relative_path)
    IN  IF Len(parts) <= 1 THEN None ELSE Some(parts[Len(parts) - 1])

determine_corpus_section(relative_path) ==
    LET parts == PathParts(relative_path)
    IN  IF Len(parts) <= 1 THEN None ELSE Some(parts[1])


(***************************************************************************)
(* The corpus on disk.  A path is the tuple of its components relative to  *)
(* the corpus root.  Universe is the set of files that may exist: two      *)
(* eligible ones and one for each rule of the walker that rejects a file.  *)
(* Fixture is a second tree, of names that exercise the rules of the       *)
(* walker; its files exist only in the specifications that draw a tree.    *)
(***************************************************************************)
F_a_md == << << "a", ".", "m", "d" >> >>
F_notes_b_txt == << << "n", "o", "t", "e", "s" >>, << "b", ".", "t", "x", "t" >> >>
F_lock_xlsx ==
    << << "~", "$", "b", "u", "d", "g", "e", "t", ".", "x", "l", "s", "x" >> >>
F_git_c_md == << << ".", "g", "i", "t" >>, << "c", ".", "m", "d" >> >>
F_run_py == << << "r", "u", "n", ".", "p", "y" >> >>

\* an upper-case extension
T_X_MD == << << "X", ".", "M", "D" >> >>
\* two levels of directories
T_docs_guides_setup_md ==
    << << "d", "o", "c", "s" >>, << "g", "u", "i", "d", "e", "s" >>,
       << "s", "e", "t", "u", "p", ".", "m", "d" >> >>
\* directly in the root
T_readme_txt == << << "r", "e", "a", "d", "m", "e", ".", "t", "x", "t" >> >>
\* below a directory whose name matches the skip pattern *.tmp
T_b_tmp_e_md == << << "b", ".", "t", "m", "p" >>, << "e", ".", "m", "d" >> >>
\* a hidden file, below a directory whose name has a supported extension
T_arch_md_e_md == << << "a", "r", "c", "h", ".", "m", "d" >>, << ".", "e", ".", "m", "d" >> >>

Fixture == {T_X_MD, T_docs_guides_setup_md, T_readme_txt, T_b_tmp_e_md, T_arch_md_e_md}

Universe == {F_a_md, F_notes_b_txt, F_lock_xlsx, F_git_c_md, F_run_py} \cup Fixture

\* the files the environment creates, changes and removes; of the others the
\* walker reads nothing but the name
Changing == {F_a_md, F_notes_b_txt}

Contents == 1..NumContents

NoFile == [present |-> FALSE, content |-> 0, ctime |-> 0, mtime |-> 0, readable |-> FALSE]

\* hashlib.sha256 of the bytes: distinct contents have distinct digests
compute_file_hash(content) == 1000 + 7 * content

\* st_size of the bytes: contents 1 and 2 have the same length
SizeOf(content) == 10 * ((content + 1) \div 2)

Sessions == {"s1", "s2"}

VARIABLES
    disk,       \* Universe -> file state
    rootIsDir,  \* whether the configured corpus root is a directory
    db,         \* the committed rows of table "files"
    sess,       \* per session: pending inserts, updates and deletes
    pc,         \* per session: "idle", "walking" or "committing"
    mode,       \* per session: "full" (index_corpus) or "incremental"
    items,      \* per session: what is left of sorted(root.rglob("*"))
    seen_paths, \* per session: seen_paths of index_corpus
    stats,      \* per session: the stats dict of the run in progress
    outcome,    \* per session: how the last call ended, and what it returned
    runs,       \* number of sync calls started
    fsOps,      \* number of changes made to the corpus
    obs,        \* per session: what an observer recorded about the last run
    yielded,    \* per invocation of walk_corpus: the records it has yielded
    trace,      \* the log a test scenario keeps of calls, returns and changes
    cli,        \* how the last "search" command of the CLI ended
    export,     \* the output directories, output files and jobs of
                \* consolidate_files, and how its last call ended
    store,      \* the database file: which session holds its write lock, and
                \* the paths a commit has inserted a second row for
    DEFAULT_CONFIG, \* the dict of that name of src/app/config.py, whose nested
                \* dicts a dict returned by load_config may share
    loaded,     \* the last call of load_config: its YAML, its environment,
                \* how it ended and the dict it returned
    web         \* the last request for /search/results: its query string,
                \* the parameters parsed from it and the page computed

vars == << disk, rootIsDir, db, sess, pc, mode, items, seen_paths, stats,
           outcome, runs, fsOps, obs, yielded, trace, cli, export, store,
           DEFAULT_CONFIG, loaded, web >>

\* what belongs to the callers of the engine, not to a sync run
around == << yielded, trace, cli, export, store,
           DEFAULT_CONFIG, loaded, web >>

\* what belongs to the other modules of the application
apart == << export, store, DEFAULT_CONFIG, loaded, web >>

\* the wall clock and the filesystem clock
Now == runs + fsOps + 1

(***************************************************************************)
(* Filesystem queries.                                                     *)
(***************************************************************************)
\* the directories below the root: the ancestors of the files present
Dirs(d) ==
    UNION {{SubSeq(f, 1, n) : n \in 1..(Len(f) - 1)} : f \in {g \in Universe : d[g].present}}

\* root.rglob("*"): every file and every directory below the root
Rglob(d) == {f \in Universe : d[f].present} \cup Dirs(d)

is_dir(item, d, root) == root /\ item \in Dirs(d)

FileExists(item, d, root) == root /\ item \in Universe /\ d[item].present

Front(s) == SubSeq(s, 1, Len(s) - 1)

Last(s) == s[Len(s)]

InSeq(x, s) == \E k \in 1..Len(s) : s[k] = x

\* mutant: the skip patterns are matched against every component of the path
NameRules_skip_any_component(item, skip_patterns, supported_extensions) ==
    /\ ~\E k \in 1..Len(item) : StartsWithDot(item[k])
    /\ ~\E k \in 1..Len(item) : _should_skip(item[k], skip_patterns)
    /\ InSeq(StrLower(Suffix(Last(item))), supported_extensions)

\* mutant: the extension is compared as it is spelled
NameRules_case_sensitive(item, skip_patterns, supported_extensions) ==
    /\ ~\E k \in 1..Len(item) : StartsWithDot(item[k])
    /\ ~_should_skip(Last(item), skip_patterns)
    /\ InSeq(Suffix(Last(item)), supported_extensions)

\* the filters of walk_corpus, in its order
NameRules(item, skip_patterns, supported_extensions) ==
    /\ ~\E k \in 1..Len(item) : StartsWithDot(item[k])
    /\ ~_should_skip(Last(item), skip_patterns)
    /\ InSeq(StrLower(Suffix(Last(item))), supported_extensions)

\* every path the walker can meet, and the verdict of the rules on each
\* (computed once: it depends on the name alone)
AllItems == Universe \cup UNION {{SubSeq(f, 1, n) : n \in 1..(Len(f) - 1)} : f \in Universe}

RuleTable ==
    [item \in AllItems |->
        NameRules(item, DEFAULT_SKIP_PATTERNS, DEFAULT_SUPPORTED_EXTENSIONS)]

Eligible(item, d, root) ==
    /\ ~is_dir(item, d, root)
    /\ RuleTable[item]

\* the dict walk_corpus yields for an item it has called stat() on
Meta(item, d) ==
    [ file_path       |-> JoinParts(item),
      file_name       |-> Last(item),
      file_extension  |-> StrLower(Suffix(Last(item))),
      file_size_bytes |-> SizeOf(d[item].content),
      parent_dir      |-> IF Front(item) # << >> THEN JoinParts(Front(item)) ELSE << >>,
      corpus_section  |-> determine_corpus_section(JoinParts(item)),
      created_at      |-> d[item].ctime,
      modified_at     |-> d[item].mtime,
      absolute_path   |-> item ]

\* index of the next item of the list the walker yields a record for, or 0
NextYield(rest, d, root) ==
    LET E == {k \in 1..Len(rest) :
                Eligible(rest[k], d, root)}
    IN  IF E = {} THEN 0 ELSE CHOOSE k \in E : \A j \in E : k <= j


(***************************************************************************)
(* The catalog as a session sees it.  The engine's queries autoflush, so   *)
(* a query reads the committed rows overlaid with the session's own        *)
(* pending inserts, updates (keyed by file_path, which no update assigns)  *)
(* and deletes.                                                            *)
(***************************************************************************)
EmptySession == [ins |-> {}, upd |-> {}, del |-> {}]

View(s) ==
    LET updated == {u.file_path : u \in s.upd}
    IN  {x \in ({y \in db : y.file_path \notin updated} \cup s.upd \cup s.ins) :
            x.file_path \notin s.del}

PathsOf(rows) == {x.file_path : x \in rows}

\* the record an update leaves in the session
Store(s, existing, row) ==
    IF existing \in s.ins
    THEN [s EXCEPT !.ins = (@ \ {existing}) \cup {row}]
    ELSE [s EXCEPT !.upd = {u \in @ : u.file_path # row.file_path} \cup {row}]

NewFile(meta, file_hash, t) ==
    [ file_path       |-> meta.file_path,
      file_name       |-> meta.file_name,
      file_extension  |-> meta.file_extension,
      file_size_bytes |-> meta.file_size_bytes,
      parent_dir      |-> meta.parent_dir,
      corpus_section  |-> meta.corpus_section,
      created_at      |-> meta.created_at,
      modified_at     |-> meta.modified_at,
      indexed_at      |-> t,
      file_hash       |-> Some(file_hash) ]

\* mutant: the unchanged branch is missing, every existing entry is rewritten
index_corpus_upsert_always_updates(s, meta, file_hash, t) ==
    LET found == {x \in View(s) : x.file_path = meta.file_path}
    IN  IF found # {}
        THEN LET existing == CHOOSE x \in found : TRUE
             IN  [sess |-> Store(s, existing,
                             [existing EXCEPT !.indexed_at = t,
                                              !.file_hash = Some(file_hash)]),
                  class |-> "updated"]
        ELSE [sess |-> [s EXCEPT !.ins = @ \cup {NewFile(meta, file_hash, t)}],
              class |-> "new"]

\* mutant: a walked file without an entry takes over the entry of another
\* path that has the same hash, as if the file had been renamed
index_corpus_upsert_following_rename(s, meta, file_hash, t) ==
    LET found == {x \in View(s) : x.file_path = meta.file_path}
        same == {x \in View(s) : x.file_hash = Some(file_hash)}
        moved(existing) ==
            [existing EXCEPT
               !.file_path = meta.file_path,
               !.file_name = meta.file_name,
               !.file_extension = meta.file_extension,
               !.file_size_bytes = meta.file_size_bytes,
               !.parent_dir = meta.parent_dir,
               !.corpus_section = meta.corpus_section,
               !.created_at = meta.created_at,
               !.modified_at = meta.modified_at,
               !.indexed_at = t,
               !.file_hash = Some(file_hash)]
    IN  IF found # {}
        THEN LET existing == CHOOSE x \in found : TRUE
             IN  IF existing.file_hash = Some(file_hash)
                 THEN [sess |-> s, class |-> "unchanged"]
                 ELSE [sess |-> Store(s, existing, moved(existing)), class |-> "updated"]
        ELSE IF same # {}
             THEN LET existing == CHOOSE x \in same : TRUE
                  IN  [sess |-> Store(s, existing, moved(existing)), class |-> "updated"]
             ELSE [sess |-> [s EXCEPT !.ins = @ \cup {NewFile(meta, file_hash, t)}],
                   class |-> "new"]

\* mutant: an unchanged entry has its timestamps refreshed
index_corpus_upsert_refreshing_unchanged(s, meta, file_hash, t) ==
    LET found == {x \in View(s) : x.file_path = meta.file_path}
    IN  IF found # {}
        THEN LET existing == CHOOSE x \in found : TRUE
             IN  IF existing.file_hash = Some(file_hash)
                 THEN [sess |-> Store(s, existing,
                                  [existing EXCEPT
                                     !.modified_at = meta.modified_at,
                                     !.indexed_at = t]),
                       class |-> "unchanged"]
                 ELSE [sess |-> Store(s, existing,
                                  [existing EXCEPT
                                     !.file_name = meta.file_name,
                                     !.file_extension = meta.file_extension,
                                     !.file_size_bytes = meta.file_size_bytes,
                                     !.parent_dir = meta.parent_dir,
                                     !.corpus_section = meta.corpus_section,
                                     !.created_at = meta.created_at,
                                     !.modified_at = meta.modified_at,
                                     !.indexed_at = t,
                                     !.file_hash = Some(file_hash)]),
                       class |-> "updated"]
        ELSE [sess |-> [s EXCEPT !.ins = @ \cup {NewFile(meta, file_hash, t)}],
              class |-> "new"]

\* mutant: an entry without a hash counts as unchanged
index_corpus_upsert_trusting_null(s, meta, file_hash, t) ==
    LET found == {x \in View(s) : x.file_path = meta.file_path}
    IN  IF found # {}
        THEN LET existing == CHOOSE x \in found : TRUE
             IN  IF existing.file_hash = None \/ existing.file_hash = Some(file_hash)
                 THEN [sess |-> s, class |-> "unchanged"]
                 ELSE [sess |-> Store(s, existing,
                                  [existing EXCEPT
                                     !.file_name = meta.file_name,
                                     !.file_extension = meta.file_extension,
                                     !.file_size_bytes = meta.file_size_bytes,
                                     !.parent_dir = meta.parent_dir,
                                     !.corpus_section = meta.corpus_section,
                                     !.created_at = meta.created_at,
                                     !.modified_at = meta.modified_at,
                                     !.indexed_at = t,
                                     !.file_hash = Some(file_hash)]),
                       class |-> "updated"]
        ELSE [sess |-> [s EXCEPT !.ins = @ \cup {NewFile(meta, file_hash, t)}],
              class |-> "new"]

\* index_corpus, from the lookup of one walked file to the end of the loop body
index_corpus_upsert(s, meta, file_hash, t) ==
    LET found == {x \in View(s) : x.file_path = meta.file_path}
    IN  IF found # {}
        THEN LET existing == CHOOSE x \in found : TRUE
             IN  IF existing.file_hash = Some(file_hash)
                 THEN [sess |-> s, class |-> "unchanged"]
                 ELSE [sess |-> Store(s, existing,
                                  [existing EXCEPT
                                     !.file_name = meta.file_name,
                                     !.file_extension = meta.file_extension,
                                     !.file_size_bytes = meta.file_size_bytes,
                                     !.parent_dir = meta.parent_dir,
                                     !.corpus_section = meta.corpus_section,
                                     !.created_at = meta.created_at,
                                     !.modified_at = meta.modified_at,
                                     !.indexed_at = t,
                                     !.file_hash = Some(file_hash)]),
                       class |-> "updated"]
        ELSE [sess |-> [s EXCEPT !.ins = @ \cup {NewFile(meta, file_hash, t)}],
              class |-> "new"]

\* mutant: the modification time, not the hash, decides what is unchanged
reindex_changed_upsert_by_mtime(s, meta, file_hash, t) ==
    LET found == {x \in View(s) : x.file_path = meta.file_path}
    IN  IF found # {}
        THEN LET existing == CHOOSE x \in found : TRUE
             IN  IF existing.modified_at = meta.modified_at
                 THEN [sess |-> s, class |-> "unchanged"]
                 ELSE [sess |-> Store(s, existing,
                                  [existing EXCEPT
                                     !.file_size_bytes = meta.file_size_bytes,
                                     !.created_at = meta.created_at,
                                     !.modified_at = meta.modified_at,
                                     !.indexed_at = t,
                                     !.file_hash = Some(file_hash)]),
                       class |-> "updated"]
        ELSE [sess |-> [s EXCEPT !.ins = @ \cup {NewFile(meta, file_hash, t)}],
              class |-> "new"]

\* reindex_changed, the same part of its loop body
reindex_changed_upsert(s, meta, file_hash, t) ==
    LET found == {x \in View(s) : x.file_path = meta.file_path}
    IN  IF found # {}
        THEN LET existing == CHOOSE x \in found : TRUE
             IN  IF existing.file_hash = Some(file_hash)
                 THEN [sess |-> s, class |-> "unchanged"]
                 ELSE [sess |-> Store(s, existing,
                                  [existing EXCEPT
                                     !.file_name = meta.file_name,
                                     !.file_extension = meta.file_extension,
                                     !.file_size_bytes = meta.file_size_bytes,
                                     !.parent_dir = meta.parent_dir,
                                     !.corpus_section = meta.corpus_section,
                                     !.created_at = meta.created_at,
                                     !.modified_at = meta.modified_at,
                                     !.indexed_at = t,
                                     !.file_hash = Some(file_hash)]),
                       class |-> "updated"]
        ELSE [sess |-> [s EXCEPT !.ins = @ \cup {NewFile(meta, file_hash, t)}],
              class |-> "new"]

\* mutant: the deletion pass deletes nothing
NotSeen_keeps_all(all_indexed, seen) == {}

\* mutant: the test of the deletion pass is inverted
NotSeen_inverted(all_indexed, seen) ==
    {x.file_path : x \in {y \in all_indexed : y.file_path \in seen}}

\* the deletion pass of index_corpus: the paths it deletes
NotSeen(all_indexed, seen) == {x.file_path : x \in {y \in all_indexed : y.file_path \notin seen}}


(***************************************************************************)
(* Initial state: the tables exist and are empty (setup_db), no call is    *)
(* in progress, the root is a directory, and the corpus holds the files    *)
(* the walker rejects and either all or none of the others, each with      *)
(* content 1.                                                              *)
(***************************************************************************)
FreshFile(c, t) == [present |-> TRUE, content |-> c, ctime |-> t, mtime |-> t, readable |-> TRUE]

NoStats == [total |-> 0]

NoOutcome == [kind |-> "none", error |-> "", stats |-> NoStats]

\* what an observer notes of a run for as long as the corpus stays as it was
\* when the call began (quiet): the committed rows and the session's view at
\* that moment, the paths whose hashing failed and how each hashed file was
\* classified; repeat says that the call began right after a full sync of the
\* same session had returned, the corpus still as that sync had found it.
\* A change to the corpus ends the observation.
NoObs ==
    [db0 |-> {}, view0 |-> {}, quiet |-> FALSE, repeat |-> FALSE, failed |-> {}, class |-> {}]

NoCli == [kind |-> "none", results |-> << >>, shown |-> << >>]

\* the home directory of the user
Home == << "/", "h" >>

\* DEFAULT_CONFIG as the module is imported
Defaults ==
    [ corpus |-> [root_path |-> << >>],
      database |-> [path |-> Home \o << "/", "k", "/", "d", "b" >>],
      consolidation |-> [output_dir |-> Home \o << "/", "k", "/", "e", "x" >>],
      server |-> [host |-> "127.0.0.1", port |-> 5000, debug |-> TRUE],
      indexer |-> [skip_patterns |-> DEFAULT_SKIP_PATTERNS,
                   supported_extensions |-> DEFAULT_SUPPORTED_EXTENSIONS] ]

\* load_config has not been called
NoLoaded == [kind |-> "none", yaml |-> << >>, env |-> << >>, config |-> << >>]

\* no request for search results yet
NoWeb == [kind |-> "none", args |-> << >>, total |-> 0, params |-> << >>, results |-> << >>]

\* nobody writes to the database
NoStore == [lock |-> "none", twice |-> {}]

\* nothing exported yet: no output directory, no output file, no job
NoExport ==
    [ dirs |-> {}, files |-> {}, jobs |-> {}, clock |-> 1, calls |-> 0, queries |-> 0,
      last |-> [kind |-> "none", output_format |-> << >>, file_count |-> 0] ]

\* no call in progress and none made yet
AtRest ==
    /\ sess = [r \in Sessions |-> EmptySession]
    /\ pc = [r \in Sessions |-> "idle"]
    /\ mode = [r \in Sessions |-> "full"]
    /\ items = [r \in Sessions |-> << >>]
    /\ seen_paths = [r \in Sessions |-> {}]
    /\ stats = [r \in Sessions |-> NoStats]
    /\ outcome = [r \in Sessions |-> NoOutcome]
    /\ runs = 0
    /\ fsOps = 0
    /\ obs = [r \in Sessions |-> NoObs]
    /\ yielded = [r \in Sessions |-> << >>]
    /\ trace = << >>
    /\ cli = NoCli
    /\ export = NoExport
    /\ store = NoStore
    /\ DEFAULT_CONFIG = Defaults
    /\ loaded = NoLoaded
    /\ web = NoWeb

Init ==
    /\ disk \in {[f \in Universe |->
                     IF f \in Fixture \/ (f \in Changing /\ empty)
                     THEN NoFile ELSE FreshFile(1, 1)] : empty \in BOOLEAN}
    /\ rootIsDir = TRUE
    /\ db = {}
    /\ AtRest


(***************************************************************************)
(* The environment: changes to the corpus between and during runs.         *)
(***************************************************************************)
Disturbed == [r \in Sessions |-> NoObs]

FsOp(newDisk, newRoot) ==
    /\ fsOps < MaxFsOps
    /\ fsOps' = fsOps + 1
    /\ disk' = newDisk
    /\ rootIsDir' = newRoot
    /\ obs' = Disturbed
    /\ UNCHANGED << db, sess, pc, mode, items, seen_paths, stats, outcome, runs >>

\* create a file, or overwrite its bytes
WriteFile(f, c) ==
    /\ ~disk[f].present \/ disk[f].content # c
    /\ FsOp([disk EXCEPT ![f] = IF disk[f].present
                                THEN [@ EXCEPT !.content = c, !.mtime = Now, !.ctime = Now]
                                ELSE FreshFile(c, Now)], rootIsDir)

\* change the timestamps of a file and nothing else
TouchFile(f) ==
    /\ disk[f].present
    /\ FsOp([disk EXCEPT ![f] = [@ EXCEPT !.mtime = Now, !.ctime = Now]], rootIsDir)

RemoveFile(f) ==
    /\ disk[f].present
    /\ FsOp([disk EXCEPT ![f] = NoFile], rootIsDir)

\* make a file unreadable, or readable again
Chmod(f) ==
    /\ disk[f].present
    /\ FsOp([disk EXCEPT ![f] = [@ EXCEPT !.readable = ~@, !.ctime = Now]], rootIsDir)

\* the configured root stops, or starts, being a directory
SetRoot == FsOp(disk, ~rootIsDir)

\* rename file f to the unused name g: the bytes and the modification time
\* move with it
RenameFile(f, g) ==
    /\ f # g
    /\ disk[f].present
    /\ ~disk[g].present
    /\ FsOp([disk EXCEPT ![g] = [disk[f] EXCEPT !.ctime = Now], ![f] = NoFile], rootIsDir)

(***************************************************************************)
(* index_corpus and reindex_changed, one step per record of the walk.      *)
(***************************************************************************)
\* the sessions that run a sync; one call at a time (the caller's discipline)
Callers == {"s1"}

CallerDiscipline(r) == \A q \in Sessions \ {r} : pc[q] = "idle"

\* walk_corpus up to its loop: the root check and sorted(root.rglob("*"))
WalkList(d, root) == IF ~root THEN << >> ELSE SortedPaths(Rglob(d))

\* the first statements of a sync call, up to the loop over the walk
Start(r, m, initial) ==
    /\ pc[r] = "idle"
    /\ runs' = runs + 1
    /\ pc' = [pc EXCEPT ![r] = "walking"]
    /\ mode' = [mode EXCEPT ![r] = m]
    /\ stats' = [stats EXCEPT ![r] = initial]
    /\ seen_paths' = [seen_paths EXCEPT ![r] = {}]
    /\ items' = [items EXCEPT ![r] = WalkList(disk, rootIsDir)]
    /\ outcome' = [outcome EXCEPT ![r] = NoOutcome]
    /\ obs' = [q \in Sessions |->
                 IF q = r
                 THEN [db0 |-> db, view0 |-> View(sess[r]), quiet |-> TRUE,
                       repeat |-> (obs[r].quiet /\ outcome[r].kind = "returned"
                                   /\ mode[r] = "full"),
                       failed |-> {}, class |-> {}]
                 ELSE NoObs]
    /\ UNCHANGED << disk, rootIsDir, db, sess, fsOps >>

Begin(r, m, initial) == CallerDiscipline(r) /\ Start(r, m, initial)

index_corpus_begin(r) ==
    Begin(r, "full", [new |-> 0, updated |-> 0, unchanged |-> 0, deleted |-> 0, total |-> 0])

reindex_changed_begin(r) ==
    Begin(r, "incremental", [new |-> 0, updated |-> 0, unchanged |-> 0, total |-> 0])

Drop(seq, k) == SubSeq(seq, k + 1, Len(seq))

\* stat() of a walked item raises: the exception leaves the generator and the
\* call; nothing rolls the session back
Raise(r) ==
    /\ pc' = [pc EXCEPT ![r] = "idle"]
    /\ items' = [items EXCEPT ![r] = << >>]
    /\ outcome' = [outcome EXCEPT ![r] =
                     [kind |-> "raised", error |-> "FileNotFoundError", stats |-> NoStats]]
    /\ seen_paths' = [seen_paths EXCEPT ![r] = {}]
    /\ stats' = [stats EXCEPT ![r] = NoStats]
    /\ UNCHANGED << sess, obs >>

\* mutant: the path is added to seen_paths only once its file has been hashed
MarkSeen_after_hash(seen, rel_path, hashed) ==
    IF hashed THEN seen \cup {rel_path} ELSE seen

\* seen_paths.add(rel_path): made before the file is hashed, so whether or
\* not the hashing succeeds
MarkSeen(seen, rel_path, hashed) == seen \cup {rel_path}

\* mutant: each iteration commits what it has done
DbInLoop_commit_each(s) == View(s)

\* the committed rows after one iteration of either loop: no commit is made
\* inside the loop
DbInLoop(s) == db

NoteFailed(r, rel_path) ==
    IF obs[r].quiet THEN [obs EXCEPT ![r].failed = @ \cup {rel_path}] ELSE obs

NoteClass(r, rel_path, class) ==
    IF obs[r].quiet THEN [obs EXCEPT ![r].class = @ \cup {<< rel_path, class >>}] ELSE obs

Bump(st, key) == [st EXCEPT ![key] = @ + 1]

\* one iteration of the loop of index_corpus
index_corpus_next(r) ==
    /\ pc[r] = "walking"
    /\ mode[r] = "full"
    /\ LET k == NextYield(items[r], disk, rootIsDir)
       IN  /\ k # 0
           /\ LET item == items[r][k]
              IN  IF ~FileExists(item, disk, rootIsDir)
                  THEN Raise(r)
                  ELSE LET meta == Meta(item, disk)
                           rel_path == meta.file_path
                           counted == Bump(stats[r], "total")
                       IN  /\ items' = [items EXCEPT ![r] = Drop(@, k)]
                           /\ UNCHANGED << pc, outcome >>
                           /\ seen_paths' = [seen_paths EXCEPT ![r] =
                                                MarkSeen(@, rel_path, disk[item].readable)]
                           /\ IF ~disk[meta.absolute_path].readable
                              THEN /\ stats' = [stats EXCEPT ![r] = counted]
                                   /\ obs' = NoteFailed(r, rel_path)
                                   /\ UNCHANGED sess
                              ELSE LET file_hash == compute_file_hash(disk[meta.absolute_path].content)
                                       res == index_corpus_upsert(sess[r], meta, file_hash, Now)
                                   IN  /\ sess' = [sess EXCEPT ![r] = res.sess]
                                       /\ stats' = [stats EXCEPT ![r] = Bump(counted, res.class)]
                                       /\ obs' = NoteClass(r, rel_path, res.class)
    /\ db' = DbInLoop(sess'[r])
    /\ UNCHANGED << disk, rootIsDir, mode, runs, fsOps >>

\* mutant: the deletion pass counts what it deletes in total as well
index_corpus_reconcile_totalling(r) ==
    /\ pc[r] = "walking"
    /\ mode[r] = "full"
    /\ NextYield(items[r], disk, rootIsDir) = 0
    /\ LET gone == NotSeen(View(sess[r]), seen_paths[r])
       IN  /\ sess' = [sess EXCEPT ![r].del = @ \cup gone]
           /\ stats' = [stats EXCEPT ![r].deleted = @ + Cardinality(gone),
                                     ![r].total = @ + Cardinality(gone)]
    /\ pc' = [pc EXCEPT ![r] = "committing"]
    /\ items' = [items EXCEPT ![r] = << >>]
    /\ UNCHANGED << disk, rootIsDir, db, mode, seen_paths, outcome, runs, fsOps, obs >>

\* the walk is exhausted: the deletion pass of index_corpus
index_corpus_reconcile(r) ==
    /\ pc[r] = "walking"
    /\ mode[r] = "full"
    /\ NextYield(items[r], disk, rootIsDir) = 0
    /\ LET gone == NotSeen(View(sess[r]), seen_paths[r])
       IN  /\ sess' = [sess EXCEPT ![r].del = @ \cup gone]
           /\ stats' = [stats EXCEPT ![r].deleted = @ + Cardinality(gone)]
    /\ pc' = [pc EXCEPT ![r] = "committing"]
    /\ items' = [items EXCEPT ![r] = << >>]
    /\ UNCHANGED << disk, rootIsDir, db, mode, seen_paths, outcome, runs, fsOps, obs >>

\* one iteration of the loop of reindex_changed
reindex_changed_next(r) ==
    /\ pc[r] = "walking"
    /\ mode[r] = "incremental"
    /\ LET k == NextYield(items[r], disk, rootIsDir)
       IN  /\ k # 0
           /\ LET item == items[r][k]
              IN  IF ~FileExists(item, disk, rootIsDir)
                  THEN Raise(r)
                  ELSE LET meta == Meta(item, disk)
                           rel_path == meta.file_path
                           counted == Bump(stats[r], "total")
                       IN  /\ items' = [items EXCEPT ![r] = Drop(@, k)]
                           /\ UNCHANGED << pc, outcome >>
                           /\ UNCHANGED seen_paths
                           /\ IF ~disk[meta.absolute_path].readable
                              THEN /\ stats' = [stats EXCEPT ![r] = counted]
                                   /\ obs' = NoteFailed(r, rel_path)
                                   /\ UNCHANGED sess
                              ELSE LET file_hash == compute_file_hash(disk[meta.absolute_path].content)
                                       res == reindex_changed_upsert(sess[r], meta, file_hash, Now)
                                   IN  /\ sess' = [sess EXCEPT ![r] = res.sess]
                                       /\ stats' = [stats EXCEPT ![r] = Bump(counted, res.class)]
                                       /\ obs' = NoteClass(r, rel_path, res.class)
    /\ db' = DbInLoop(sess'[r])
    /\ UNCHANGED << disk, rootIsDir, mode, runs, fsOps >>

\* mutant: reindex_changed runs the deletion pass of index_corpus
reindex_changed_walked_deleting(r) ==
    /\ pc[r] = "walking"
    /\ mode[r] = "incremental"
    /\ NextYield(items[r], disk, rootIsDir) = 0
    /\ sess' = [sess EXCEPT ![r].del = @ \cup NotSeen(View(sess[r]), seen_paths[r])]
    /\ pc' = [pc EXCEPT ![r] = "committing"]
    /\ items' = [items EXCEPT ![r] = << >>]
    /\ UNCHANGED << disk, rootIsDir, db, mode, seen_paths, stats, outcome,
                    runs, fsOps, obs >>

\* the walk is exhausted: reindex_changed goes straight to its commit
reindex_changed_walked(r) ==
    /\ pc[r] = "walking"
    /\ mode[r] = "incremental"
    /\ NextYield(items[r], disk, rootIsDir) = 0
    /\ pc' = [pc EXCEPT ![r] = "committing"]
    /\ items' = [items EXCEPT ![r] = << >>]
    /\ UNCHANGED << disk, rootIsDir, db, sess, mode, seen_paths, stats, outcome,
                    runs, fsOps, obs >>

\* db_session.commit() succeeds and the call returns stats
commit(r) ==
    /\ pc[r] = "committing"
    /\ db' = View(sess[r])
    /\ sess' = [sess EXCEPT ![r] = EmptySession]
    /\ pc' = [pc EXCEPT ![r] = "idle"]
    /\ outcome' = [outcome EXCEPT ![r] =
                     [kind |-> "returned", error |-> "", stats |-> stats[r]]]
    /\ seen_paths' = [seen_paths EXCEPT ![r] = {}]
    /\ stats' = [stats EXCEPT ![r] = NoStats]
    /\ UNCHANGED << disk, rootIsDir, mode, items, runs, fsOps, obs >>

\* db_session.commit() raises: the database rolls the transaction back and the
\* exception leaves the call
commit_fails(r) ==
    /\ pc[r] = "committing"
    /\ sess' = [sess EXCEPT ![r] = EmptySession]
    /\ pc' = [pc EXCEPT ![r] = "idle"]
    /\ outcome' = [outcome EXCEPT ![r] =
                     [kind |-> "raised", error |-> "commit", stats |-> NoStats]]
    /\ seen_paths' = [seen_paths EXCEPT ![r] = {}]
    /\ stats' = [stats EXCEPT ![r] = NoStats]
    /\ UNCHANGED << disk, rootIsDir, db, mode, items, runs, fsOps, obs >>

\* the sync calls and the changes of the corpus, MaxRuns calls at most
Next ==
    \/ \E f \in Changing, c \in Contents : WriteFile(f, c) /\ UNCHANGED around
    \/ \E f \in Changing : TouchFile(f) /\ UNCHANGED around
    \/ \E f \in Changing : RemoveFile(f) /\ UNCHANGED around
    \/ \E f \in Changing : Chmod(f) /\ UNCHANGED around
    \/ SetRoot /\ UNCHANGED around
    \/ \E r \in Callers : runs < MaxRuns /\ index_corpus_begin(r) /\ UNCHANGED around
    \/ \E r \in Callers : index_corpus_next(r) /\ UNCHANGED around
    \/ \E r \in Callers : index_corpus_reconcile(r) /\ UNCHANGED around
    \/ \E r \in Callers : runs < MaxRuns /\ reindex_changed_begin(r) /\ UNCHANGED around
    \/ \E r \in Callers : reindex_changed_next(r) /\ UNCHANGED around
    \/ \E r \in Callers : reindex_changed_walked(r) /\ UNCHANGED around
    \/ \E r \in Callers : commit(r) /\ UNCHANGED around
    \/ \E r \in Callers : commit_fails(r) /\ UNCHANGED around

Spec == Init /\ [][Next]_vars

(***************************************************************************)
(* A test scenario: the corpus holds a.md and notes/b.txt, the catalog is  *)
(* empty, and a test makes up to ScenarioRuns calls of index_corpus,       *)
(* removing or renaming files in between or meanwhile.  It logs each call, *)
(* each return with the statistics returned and the catalog as committed,  *)
(* each exception and each change it makes to the corpus.                  *)
(***************************************************************************)
Event(kind, file, to, st, catalog) ==
    [kind |-> kind, file |-> file, to |-> to, stats |-> st, catalog |-> catalog]

Logged(ev) == trace' = Append(trace, ev) /\ UNCHANGED << yielded, cli, apart >>

ScenarioInit ==
    /\ disk = [f \in Universe |-> IF f \in Fixture THEN NoFile ELSE FreshFile(1, 1)]
    /\ rootIsDir = TRUE
    /\ db = {}
    /\ AtRest

ScenarioNext ==
    \/ \E f \in Changing :
          RemoveFile(f) /\ Logged(Event("removed", JoinParts(f), << >>, NoStats, {}))
    \/ \E f, g \in Changing :
          RenameFile(f, g) /\ Logged(Event("renamed", JoinParts(f), JoinParts(g), NoStats, {}))
    \/ \E r \in Callers :
          /\ runs < ScenarioRuns
          /\ index_corpus_begin(r)
          /\ Logged(Event("called", << >>, << >>, NoStats, {}))
    \/ \E r \in Callers :
          /\ index_corpus_next(r)
          /\ IF outcome'[r].kind = "raised"
             THEN Logged(Event("raised", << >>, << >>, NoStats, {}))
             ELSE UNCHANGED around
    \/ \E r \in Callers : index_corpus_reconcile(r) /\ UNCHANGED around
    \/ \E r \in Callers :
          commit(r) /\ Logged(Event("returned", << >>, << >>, stats[r], db'))
    \/ \E r \in Callers :
          commit_fails(r) /\ Logged(Event("raised", << >>, << >>, NoStats, {}))

ScenarioSpec == ScenarioInit /\ [][ScenarioNext]_vars

(***************************************************************************)
(* walk_corpus on its own: the tree is any set of the files of Universe,   *)
(* it does not change, and two callers each iterate over an invocation of  *)
(* walk_corpus, step by step and in any interleaving; an exhausted         *)
(* iteration may be started again.                                         *)
(***************************************************************************)
WalkInit ==
    /\ disk \in {[f \in Universe |-> IF f \in S THEN FreshFile(1, 1) ELSE NoFile] :
                    S \in SUBSET Universe}
    /\ rootIsDir \in BOOLEAN
    /\ db = {}
    /\ AtRest

\* walk_corpus(root) is called: the body runs up to the sorted listing
walk_corpus_begin(r) ==
    /\ pc[r] \in {"idle", "exhausted"}
    /\ pc' = [pc EXCEPT ![r] = "walking"]
    /\ items' = [items EXCEPT ![r] = WalkList(disk, rootIsDir)]
    /\ yielded' = [yielded EXCEPT ![r] = << >>]
    /\ UNCHANGED << disk, rootIsDir, db, sess, mode, seen_paths, stats, outcome,
                    runs, fsOps, obs, trace, cli, apart >>

\* mutant: the invocations advance one cursor, that of the walk begun first
walk_corpus_next_shared_cursor(r) ==
    /\ pc[r] = "walking"
    /\ LET c == IF pc["s1"] = "walking" THEN "s1" ELSE r
           k == NextYield(items[c], disk, rootIsDir)
       IN  /\ k # 0
           /\ yielded' = [yielded EXCEPT ![r] = Append(@, Meta(items[c][k], disk))]
           /\ items' = [items EXCEPT ![c] = Drop(@, k)]
    /\ UNCHANGED << disk, rootIsDir, db, sess, pc, mode, seen_paths, stats, outcome,
                    runs, fsOps, obs, trace, cli, apart >>

\* next() on the generator: the loop runs on to its next yield
walk_corpus_next(r) ==
    /\ pc[r] = "walking"
    /\ LET k == NextYield(items[r], disk, rootIsDir)
       IN  /\ k # 0
           /\ IF ~FileExists(items[r][k], disk, rootIsDir)
              THEN Raise(r) /\ UNCHANGED yielded
              ELSE /\ yielded' = [yielded EXCEPT ![r] = Append(@, Meta(items[r][k], disk))]
                   /\ items' = [items EXCEPT ![r] = Drop(@, k)]
                   /\ UNCHANGED << sess, pc, seen_paths, stats, outcome, obs >>
    /\ UNCHANGED << disk, rootIsDir, db, mode, runs, fsOps, trace, cli, apart >>

\* next() on the generator: the loop ends without another yield
walk_corpus_end(r) ==
    /\ pc[r] = "walking"
    /\ NextYield(items[r], disk, rootIsDir) = 0
    /\ pc' = [pc EXCEPT ![r] = "exhausted"]
    /\ items' = [items EXCEPT ![r] = << >>]
    /\ UNCHANGED << disk, rootIsDir, db, sess, mode, seen_paths, stats, outcome,
                    runs, fsOps, obs, yielded, trace, cli, apart >>

WalkNext ==
    \/ \E r \in Sessions : walk_corpus_begin(r)
    \/ \E r \in Sessions : walk_corpus_next(r)
    \/ \E r \in Sessions : walk_corpus_end(r)

WalkSpec == WalkInit /\ [][WalkNext]_vars

(***************************************************************************)
(* The sync calls over a drawn tree: the corpus holds the files of the     *)
(* first tree that the walker rejects and any of the files of Fixture; the *)
(* bytes of docs/guides/setup.md may change between and during the calls.  *)
(***************************************************************************)
Rewritten == {T_docs_guides_setup_md}

TreeInit ==
    /\ disk \in {[f \in Universe |->
                     IF f \in S \/ f \in Universe \ (Fixture \cup Changing)
                     THEN FreshFile(1, 1) ELSE NoFile] : S \in SUBSET Fixture}
    /\ rootIsDir = TRUE
    /\ db = {}
    /\ AtRest

TreeNext ==
    \/ \E f \in Rewritten, c \in Contents : WriteFile(f, c) /\ UNCHANGED around
    \/ \E r \in Callers : runs < MaxRuns /\ index_corpus_begin(r) /\ UNCHANGED around
    \/ \E r \in Callers : index_corpus_next(r) /\ UNCHANGED around
    \/ \E r \in Callers : index_corpus_reconcile(r) /\ UNCHANGED around
    \/ \E r \in Callers : runs < MaxRuns /\ reindex_changed_begin(r) /\ UNCHANGED around
    \/ \E r \in Callers : reindex_changed_next(r) /\ UNCHANGED around
    \/ \E r \in Callers : reindex_changed_walked(r) /\ UNCHANGED around
    \/ \E r \in Callers : commit(r) /\ UNCHANGED around
    \/ \E r \in Callers : commit_fails(r) /\ UNCHANGED around

TreeSpec == TreeInit /\ [][TreeNext]_vars

(***************************************************************************)
(* Search (src/app/search.py) and the "search" command of the CLI, which   *)
(* runs in a process of its own and reads the committed catalog.           *)
(***************************************************************************)
\* SearchParams(): the defaults of the dataclass
SearchParams ==
    [ filename |-> << >>, extensions |-> << >>, sections |-> << >>,
      date_from |-> None, date_to |-> None, path_contains |-> << >>,
      min_size |-> None, max_size |-> None,
      sort_by |-> "file_name", sort_dir |-> "asc", page |-> 1, per_page |-> 25 ]

\* column.ilike("%needle%"), for a needle without wildcards
ILikeContains(text, needle) ==
    LET t == StrLower(text)
        n == StrLower(needle)
    IN  \E i \in 1..(Len(t) - Len(n) + 1) : SubSeq(t, i, i + Len(n) - 1) = n

\* the WHERE clause build_query puts together
Matches(x, params) ==
    /\ params.filename # << >> => ILikeContains(x.file_name, params.filename)
    /\ params.extensions # << >> => InSeq(x.file_extension, params.extensions)
    /\ params.sections # << >> =>
          (x.corpus_section # None /\ InSeq(x.corpus_section[1], params.sections))
    /\ params.date_from # None => x.modified_at >= params.date_from[1]
    /\ params.date_to # None => x.modified_at <= params.date_to[1]
    /\ params.path_contains # << >> => ILikeContains(x.file_path, params.path_contains)
    /\ params.min_size # None => x.file_size_bytes >= params.min_size[1]
    /\ params.max_size # None => x.file_size_bytes <= params.max_size[1]

\* x sorts before y on the column VALID_SORT_COLUMNS gives for sort_by
\* (file_name for an unknown one); NULL sorts first
ColumnLess(x, y, sort_by) ==
    CASE sort_by = "modified_at" -> x.modified_at < y.modified_at
      [] sort_by = "file_size_bytes" -> x.file_size_bytes < y.file_size_bytes
      [] sort_by = "file_path" -> StrLess(x.file_path, y.file_path)
      [] sort_by = "file_extension" -> StrLess(x.file_extension, y.file_extension)
      [] sort_by = "corpus_section" ->
            IF x.corpus_section = None THEN y.corpus_section # None
            ELSE y.corpus_section # None
                 /\ StrLess(x.corpus_section[1], y.corpus_section[1])
      [] OTHER -> StrLess(x.file_name, y.file_name)

\* ORDER BY: rows that are equal on the column come in an order the
\* database chooses
RECURSIVE OrderBy(_, _, _)
OrderBy(rows, sort_by, sort_dir) ==
    IF rows = {} THEN << >>
    ELSE LET first == CHOOSE x \in rows :
                        \A y \in rows :
                            IF sort_dir = "desc"
                            THEN ~ColumnLess(x, y, sort_by)
                            ELSE ~ColumnLess(y, x, sort_by)
         IN  << first >> \o OrderBy(rows \ {first}, sort_by, sort_dir)

\* the rows the query of build_query(params) returns, in order
build_query(params, rows) ==
    OrderBy({x \in rows : Matches(x, params)}, params.sort_by, params.sort_dir)

Max(a, b) == IF a >= b THEN a ELSE b

Min(a, b) == IF a <= b THEN a ELSE b

\* mutant: the page asked for is used as it is
Paginate_without_clamp(params, total) ==
    LET pages == Max(1, (total + params.per_page - 1) \div params.per_page)
        page == params.page
        offset == (page - 1) * params.per_page
    IN  [ pages |-> pages, page |-> page, offset |-> offset,
          rows |-> Max(0, Min(params.per_page, total - offset)) ]

\* the arithmetic of execute_search on a query that counts total rows, for
\* per_page >= 1 and page >= 1: the number of pages, the page shown, the
\* offset of its first row and the number of rows offset and limit leave
Paginate(params, total) ==
    LET pages == Max(1, (total + params.per_page - 1) \div params.per_page)
        page == Min(params.page, pages)
        offset == (page - 1) * params.per_page
    IN  [ pages |-> pages, page |-> page, offset |-> offset,
          rows |-> Max(0, Min(params.per_page, total - offset)) ]

\* the dict execute_search returns
execute_search(params, rows) ==
    LET query == build_query(params, rows)
        total == Len(query)
        p == Paginate(params, total)
    IN  [ files    |-> SubSeq(query, p.offset + 1, p.offset + p.rows),
          total    |-> total,
          page     |-> p.page,
          per_page |-> params.per_page,
          pages    |-> p.pages ]

\* kcm search --name name --ext ext --section section --limit limit
cli_search(name, ext, section, limit) ==
    /\ LET params == [SearchParams EXCEPT
                         !.filename = name,
                         !.extensions = IF ext # << >> THEN << ext >> ELSE << >>,
                         !.sections = IF section # << >> THEN << section >> ELSE << >>,
                         !.per_page = limit]
           results == execute_search(params, db)
       IN  cli' = IF results["files"] = << >>
                  THEN [kind |-> "no_match", results |-> results, shown |-> << >>]
                  ELSE IF "items" \notin DOMAIN results
                       THEN [kind |-> "KeyError", results |-> results, shown |-> << >>]
                       ELSE [kind |-> "listed", results |-> results,
                             shown |-> [i \in 1..Len(results["files"]) |->
                                          results["files"][i].file_path]]
    /\ UNCHANGED << disk, rootIsDir, db, sess, pc, mode, items, seen_paths, stats,
                    outcome, runs, fsOps, obs, yielded, trace, apart >>

\* what the options of the command are drawn from
Names == {<< >>, << "E" >>}

Extensions == {<< >>, << ".", "m", "d" >>, << ".", "t", "x", "t" >>}

Sections == {<< >>, << "d", "o", "c", "s" >>}

SearchNext ==
    \/ \E r \in Callers : runs < SearchRuns /\ index_corpus_begin(r) /\ UNCHANGED around
    \/ \E r \in Callers : index_corpus_next(r) /\ UNCHANGED around
    \/ \E r \in Callers : index_corpus_reconcile(r) /\ UNCHANGED around
    \/ \E r \in Callers : commit(r) /\ UNCHANGED around
    \/ \E r \in Callers : commit_fails(r) /\ UNCHANGED around
    \/ \E name \in Names, ext \in Extensions, section \in Sections, limit \in 1..MaxLimit :
          cli_search(name, ext, section, limit)

SearchSpec == TreeInit /\ [][SearchNext]_vars


(***************************************************************************)
(* Consolidation (src/app/consolidator.py): the catalog rows whose id is   *)
(* among file_ids are written as one report under output_dir, and a        *)
(* ConsolidationJob records the export.  A report is kept as its title,    *)
(* its time, its file count and, line by line, which section or file the   *)
(* line is about; an output file name as the three parts it is made of.    *)
(***************************************************************************)
\* File.id: the rows of the model carry no id column; the row of a path has
\* the rank of the path among those of Universe for id
FileId ==
    LET order == SortedPaths(Universe)
    IN  [p \in {JoinParts(f) : f \in Universe} |->
            CHOOSE i \in 1..Len(order) : JoinParts(order[i]) = p]

\* query(File).filter(File.id.in_(file_ids)).all(), in the order of the key
RECURSIVE QueryByIds(_, _)
QueryByIds(rows, file_ids) ==
    LET found == {x \in rows : FileId[x.file_path] \in file_ids}
    IN  IF found = {} THEN << >>
        ELSE LET first == CHOOSE x \in found :
                             \A y \in found : FileId[x.file_path] <= FileId[y.file_path]
             IN  << first >> \o QueryByIds(rows \ {first}, file_ids)

SeqToSet(s) == {s[i] : i \in 1..Len(s)}

ReportLine(kind, section, file_path) ==
    [kind |-> kind, section |-> section, file_path |-> file_path]

\* f.corpus_section or "(root)"
SectionLabel(f) ==
    IF f.corpus_section = None \/ f.corpus_section = Some(<< >>)
    THEN << "(", "r", "o", "o", "t", ")" >>
    ELSE f.corpus_section[1]

\* sorted(S) for a finite set of strings
RECURSIVE SortedStrings(_)
SortedStrings(S) ==
    IF S = {} THEN << >>
    ELSE LET m == CHOOSE x \in S : \A y \in S \ {x} : StrLess(x, y)
         IN  << m >> \o SortedStrings(S \ {m})

\* the lines of the sections from the k-th on: a heading, then the files of
\* the section sorted by file_path
RECURSIVE SectionLines(_, _, _)
SectionLines(files, names, k) ==
    IF k > Len(names) THEN << >>
    ELSE LET section_files ==
                 OrderBy({f \in SeqToSet(files) : SectionLabel(f) = names[k]},
                         "file_path", "asc")
         IN  << ReportLine("heading", names[k], << >>) >>
             \o [i \in 1..Len(section_files) |->
                   ReportLine("file", names[k], section_files[i].file_path)]
             \o SectionLines(files, names, k + 1)

consolidate_markdown(files, name, now) ==
    [ title |-> name, generated |-> now, file_count |-> Len(files),
      lines |-> SectionLines(files,
                    SortedStrings({SectionLabel(f) : f \in SeqToSet(files)}), 1) ]

\* the files come as the query returned them
consolidate_json(files, name, now) ==
    [ title |-> name, generated |-> now, file_count |-> Len(files),
      lines |-> [i \in 1..Len(files) |->
                   ReportLine("object", SectionLabel(files[i]), files[i].file_path)] ]

consolidate_text(files, name, now) ==
    LET sorted == OrderBy(SeqToSet(files), "file_path", "asc")
    IN  [ title |-> name, generated |-> now, file_count |-> Len(files),
          lines |-> [i \in 1..Len(sorted) |->
                       ReportLine("path", << >>, sorted[i].file_path)] ]

\* the extension FORMAT_HANDLERS gives for each format it knows
FORMAT_HANDLERS == [markdown |-> ".md", json |-> ".json", text |-> ".txt"]

\* handler(files, name) for the handler FORMAT_HANDLERS gives
Handle(output_format, files, name, now) ==
    CASE output_format = "markdown" -> consolidate_markdown(files, name, now)
      [] output_format = "json" -> consolidate_json(files, name, now)
      [] output_format = "text" -> consolidate_text(files, name, now)

Letters == {Alphabet[i] : i \in 1..Len(Alphabet)} \ {" ", "$", "(", ")", ".", "/", "_", "~"}

RECURSIVE Strip(_)
Strip(s) ==
    IF s = << >> THEN s
    ELSE IF Head(s) = " " THEN Strip(Tail(s))
    ELSE IF s[Len(s)] = " " THEN Strip(SubSeq(s, 1, Len(s) - 1))
    ELSE s

\* safe_name: every character that is neither alphanumeric nor one of "-",
\* "_" and " " becomes "_", the ends are stripped, spaces become "_"
SafeName(name) ==
    LET kept == [i \in 1..Len(name) |->
                   IF name[i] \in Letters \cup {"-", "_", " "} THEN name[i] ELSE "_"]
        stripped == Strip(kept)
    IN  [i \in 1..Len(stripped) |-> IF stripped[i] = " " THEN "_" ELSE stripped[i]]

\* consolidate_files from the query on; the clock reads export.clock + tick
\* when the call is made
Consolidated(r, file_ids, output_format, name, output_dir, query_params_json, tick) ==
    LET now == export.clock + tick
        files == QueryByIds(View(sess[r]), file_ids)
        content == Handle(output_format, files, name, now)
        output_path == [dir |-> output_dir, timestamp |-> now,
                        safe_name |-> SafeName(name),
                        extension |-> FORMAT_HANDLERS[output_format]]
        job == [name |-> name, query_params |-> query_params_json,
                output_path |-> output_path, output_format |-> output_format,
                created_at |-> now, file_count |-> Len(files)]
    IN  /\ export' = [export EXCEPT
                         !.clock = now,
                         !.calls = @ + 1,
                         !.queries = @ + 1,
                         !.dirs = @ \cup {output_dir},
                         !.files = {f \in @ : f.path # output_path}
                                   \cup {[path |-> output_path, content |-> content]},
                         !.jobs = @ \cup {job},
                         !.last = [kind |-> "returned", output_format |-> output_format,
                                   file_count |-> Len(files)]]
        /\ db' = View(sess[r])
        /\ sess' = [sess EXCEPT ![r] = EmptySession]

\* raise ValueError(...)
Unsupported(output_format) ==
    /\ export' = [export EXCEPT
                     !.calls = @ + 1,
                     !.last = [kind |-> "ValueError", output_format |-> output_format,
                               file_count |-> 0]]
    /\ UNCHANGED << db, sess >>

\* mutant: the format is looked up only once the files have been queried
consolidate_files_looking_up_late(r, file_ids, output_format, name, output_dir, query_params_json, tick) ==
    /\ \A q \in Sessions : pc[q] = "idle"
    /\ IF output_format \notin DOMAIN FORMAT_HANDLERS
       THEN /\ export' = [export EXCEPT
                             !.calls = @ + 1,
                             !.queries = @ + 1,
                             !.last = [kind |-> "KeyError", output_format |-> output_format,
                                       file_count |-> 0]]
            /\ UNCHANGED << db, sess >>
       ELSE Consolidated(r, file_ids, output_format, name, output_dir,
                         query_params_json, tick)
    /\ UNCHANGED << disk, rootIsDir, pc, mode, items, seen_paths, stats, outcome,
                    runs, fsOps, obs, yielded, trace, cli, store,
                    DEFAULT_CONFIG, loaded, web >>

\* a call of consolidate_files on session r, made while no sync is running
consolidate_files(r, file_ids, output_format, name, output_dir, query_params_json, tick) ==
    /\ \A q \in Sessions : pc[q] = "idle"
    /\ IF output_format \notin DOMAIN FORMAT_HANDLERS
       THEN Unsupported(output_format)
       ELSE Consolidated(r, file_ids, output_format, name, output_dir,
                         query_params_json, tick)
    /\ UNCHANGED << disk, rootIsDir, pc, mode, items, seen_paths, stats, outcome,
                    runs, fsOps, obs, yielded, trace, cli, store,
                    DEFAULT_CONFIG, loaded, web >>

\* what the arguments of the calls are drawn from
FileIdSets ==
    { {FileId[JoinParts(T_readme_txt)]},
      {FileId[JoinParts(T_X_MD)], FileId[JoinParts(T_docs_guides_setup_md)],
       FileId[JoinParts(F_run_py)]} }

Formats == {"markdown", "json", "text", "xml", "Markdown"}

ExportNames == {<< " ", "a", "/", " ", "b" >>}

OutputDir == << "o", "u", "t" >>

\* every file of Fixture is in the corpus; one full sync fills the catalog, and
\* consolidate_files is called before it, after it, or both
ExportInit == TreeInit /\ \A f \in Fixture : disk[f].present

ExportNext ==
    \/ \E r \in Callers : runs < SearchRuns /\ index_corpus_begin(r) /\ UNCHANGED around
    \/ \E r \in Callers : index_corpus_next(r) /\ UNCHANGED around
    \/ \E r \in Callers : index_corpus_reconcile(r) /\ UNCHANGED around
    \/ \E r \in Callers : commit(r) /\ UNCHANGED around
    \/ \E r \in Callers : commit_fails(r) /\ UNCHANGED around
    \/ \E r \in Callers, file_ids \in FileIdSets, output_format \in Formats,
          name \in ExportNames, tick \in {0, 1} :
          /\ export.calls < MaxExports
          /\ consolidate_files(r, file_ids, output_format, name, OutputDir,
                               file_ids, tick)

ExportSpec == ExportInit /\ [][ExportNext]_vars


(***************************************************************************)
(* index_corpus over a catalog it did not write: file_hash is a nullable   *)
(* column, and the rows found by a run may hold no hash, the hash of other *)
(* bytes or the hash of the bytes on disk, for files that are in the       *)
(* corpus or for run.py, which the walker rejects.                         *)
(***************************************************************************)
Stored == {F_a_md, F_notes_b_txt, F_run_py}

StoredHashes == {None} \cup {Some(compute_file_hash(c)) : c \in Contents}

\* a row of table files written at time 0 for file f, with the hash given
StoredRow(f, d, file_hash) ==
    [NewFile(Meta(f, d), 0, 0) EXCEPT !.file_hash = file_hash]

CatalogsOver(d) ==
    { {StoredRow(f, d, h[f]) : f \in S} : S \in SUBSET Stored, h \in [Stored -> StoredHashes] }

\* the files that change hold any content, notes/b.txt may be unreadable
HashInit ==
    /\ disk \in {[f \in Universe |->
                     CASE f \in Fixture -> NoFile
                       [] f = F_a_md -> FreshFile(ca, 1)
                       [] f = F_notes_b_txt -> [FreshFile(cb, 1) EXCEPT !.readable = rb]
                       [] OTHER -> FreshFile(1, 1)] :
                   ca \in Contents, cb \in Contents, rb \in BOOLEAN}
    /\ rootIsDir = TRUE
    /\ db \in CatalogsOver(disk)
    /\ AtRest

HashNext ==
    \/ \E r \in Callers : runs < MaxRuns /\ index_corpus_begin(r) /\ UNCHANGED around
    \/ \E r \in Callers : index_corpus_next(r) /\ UNCHANGED around
    \/ \E r \in Callers : index_corpus_reconcile(r) /\ UNCHANGED around
    \/ \E r \in Callers : commit(r) /\ UNCHANGED around
    \/ \E r \in Callers : commit_fails(r) /\ UNCHANGED around

HashSpec == HashInit /\ [][HashNext]_vars

(***************************************************************************)
(* Two sessions that sync with no discipline, each with a connection of    *)
(* its own to the SQLite file (src/app/__init__.py).  A query flushes what *)
(* the session has pending, and so does the commit; the first flush makes  *)
(* the session the one writer of the database until its transaction ends.  *)
(* A flush raises when another session holds the write lock, when a row it *)
(* inserts has a file_path that is committed already (file_path is         *)
(* unique), or when a row it updates is no longer there.  The corpus does  *)
(* not change; notes/b.txt may be unreadable.                              *)
(***************************************************************************)
Pending(r) == sess[r] # EmptySession

Locked(r) == store.lock \notin {"none", r}

\* mutant: file_path is not declared unique
Conflict_without_unique(r) ==
    \E x \in sess[r].upd : x.file_path \notin PathsOf(db)

\* the rows session r has pending cannot be written to the committed rows
Conflict(r) ==
    \/ \E x \in sess[r].ins : x.file_path \in PathsOf(db)
    \/ \E x \in sess[r].upd : x.file_path \notin PathsOf(db)

\* the flush a query or a commit of session r begins with, when it succeeds
Flush(r) ==
    /\ Pending(r) => (~Locked(r) /\ ~Conflict(r))
    /\ store' = IF Pending(r) THEN [store EXCEPT !.lock = r] ELSE store

\* the iteration that comes next gets as far as its query: the file it is
\* about can be hashed
ReachesQuery(r) ==
    LET k == NextYield(items[r], disk, rootIsDir)
    IN  k # 0 /\ disk[items[r][k]].readable

\* one iteration of either loop on a database that is shared
Iteration(r) == IF ReachesQuery(r) THEN Flush(r) ELSE UNCHANGED store

\* the flush raises: the transaction is rolled back and the exception leaves
\* the sync call
flush_fails(r) ==
    /\ pc[r] = "committing"
       \/ (pc[r] = "walking" /\ NextYield(items[r], disk, rootIsDir) = 0 /\ mode[r] = "full")
       \/ (pc[r] = "walking" /\ ReachesQuery(r))
    /\ Pending(r)
    /\ Locked(r) \/ Conflict(r)
    /\ sess' = [sess EXCEPT ![r] = EmptySession]
    /\ pc' = [pc EXCEPT ![r] = "idle"]
    /\ items' = [items EXCEPT ![r] = << >>]
    /\ outcome' = [outcome EXCEPT ![r] =
                     [kind |-> "raised",
                      error |-> IF Locked(r) THEN "OperationalError"
                                ELSE IF \E x \in sess[r].ins : x.file_path \in PathsOf(db)
                                     THEN "IntegrityError" ELSE "StaleDataError",
                      stats |-> NoStats]]
    /\ seen_paths' = [seen_paths EXCEPT ![r] = {}]
    /\ stats' = [stats EXCEPT ![r] = NoStats]
    /\ store' = IF store.lock = r THEN [store EXCEPT !.lock = "none"] ELSE store
    /\ UNCHANGED << disk, rootIsDir, db, mode, runs, fsOps, obs >>

\* db_session.commit() of a session that shares the database: the flush, then
\* the end of the transaction
commit_shared(r) ==
    /\ Pending(r) => (~Locked(r) /\ ~Conflict(r))
    /\ store' = [lock |-> IF store.lock = r THEN "none" ELSE store.lock,
                 twice |-> store.twice
                           \cup (PathsOf(sess[r].ins) \cap PathsOf(db))]
    /\ commit(r)

\* the catalogs the runs find: empty, written by others, or up to date
ConcurrentCatalogs(d) ==
    { {},
      {StoredRow(F_a_md, d, None), StoredRow(F_run_py, d, None)},
      {StoredRow(F_a_md, d, None), StoredRow(F_notes_b_txt, d, None)},
      {StoredRow(f, d, Some(compute_file_hash(d[f].content))) :
          f \in {F_a_md, F_notes_b_txt}} }

ConcurrentInit ==
    /\ disk \in {[f \in Universe |->
                     CASE f \in Fixture -> NoFile
                       [] f = F_notes_b_txt -> [FreshFile(1, 1) EXCEPT !.readable = rb]
                       [] OTHER -> FreshFile(1, 1)] : rb \in BOOLEAN}
    /\ rootIsDir = TRUE
    /\ db \in ConcurrentCatalogs(disk)
    /\ AtRest

\* what neither a sync run nor the database lock touches
beside == << yielded, trace, cli, export, DEFAULT_CONFIG, loaded, web >>

ConcurrentNext ==
    \/ \E r \in Sessions :
          /\ runs < ConcurrentRuns
          /\ Start(r, "full", [new |-> 0, updated |-> 0, unchanged |-> 0,
                               deleted |-> 0, total |-> 0])
          /\ UNCHANGED << store, beside >>
    \/ \E r \in Sessions :
          /\ runs < ConcurrentRuns
          /\ Start(r, "incremental", [new |-> 0, updated |-> 0, unchanged |-> 0,
                                      total |-> 0])
          /\ UNCHANGED << store, beside >>
    \/ \E r \in Sessions : index_corpus_next(r) /\ Iteration(r) /\ UNCHANGED beside
    \/ \E r \in Sessions : index_corpus_reconcile(r) /\ Flush(r) /\ UNCHANGED beside
    \/ \E r \in Sessions : reindex_changed_next(r) /\ Iteration(r) /\ UNCHANGED beside
    \/ \E r \in Sessions : reindex_changed_walked(r) /\ UNCHANGED << store, beside >>
    \/ \E r \in Sessions : commit_shared(r) /\ UNCHANGED beside
    \/ \E r \in Sessions : flush_fails(r) /\ UNCHANGED beside

ConcurrentSpec == ConcurrentInit /\ [][ConcurrentNext]_vars

(***************************************************************************)
(* Configuration (src/app/config.py).  A dict is a function, a str a       *)
(* sequence of characters.  DEFAULT_CONFIG.copy() and _deep_merge copy the *)
(* dict they are given but not the dicts it holds: a section that the YAML *)
(* file does not replace is, in the dict load_config works on, the very    *)
(* dict DEFAULT_CONFIG holds, and an assignment to one of its keys is an   *)
(* assignment to DEFAULT_CONFIG.                                           *)
(***************************************************************************)
Digits == << "0", "1", "2", "3", "4", "5", "6", "7", "8", "9" >>

IsDigit(c) == \E i \in 1..Len(Digits) : Digits[i] = c

DigitValue(c) == (CHOOSE i \in 1..Len(Digits) : Digits[i] = c) - 1

RECURSIVE Decimal(_, _)
Decimal(s, acc) ==
    IF s = << >> THEN acc ELSE Decimal(Tail(s), 10 * acc + DigitValue(Head(s)))

\* int(s) of a str: Some(n), or None where int raises ValueError; blanks at
\* the ends and one sign are accepted
int(s) ==
    LET t == Strip(s)
        signed == t # << >> /\ Head(t) \in {"-", "+"}
        digits == IF signed THEN Tail(t) ELSE t
    IN  IF digits = << >> \/ \E i \in 1..Len(digits) : ~IsDigit(digits[i])
        THEN None
        ELSE Some(IF signed /\ Head(t) = "-" THEN 0 - Decimal(digits, 0)
                  ELSE Decimal(digits, 0))

\* str(Path(p).expanduser()), for a p without "." and ".." components and
\* without doubled slashes: a slash at the end is dropped, "" becomes ".",
\* and a leading "~" component becomes the home directory
PathStr(p) ==
    IF p = << >> THEN << "." >>
    ELSE IF Len(p) > 1 /\ p[Len(p)] = "/" THEN SubSeq(p, 1, Len(p) - 1)
    ELSE p

Expanduser(p) ==
    LET q == PathStr(p)
    IN  IF q # << >> /\ Head(q) = "~" /\ (Len(q) = 1 \/ q[2] = "/")
        THEN Home \o Tail(q)
        ELSE q

\* _deep_merge for dicts that hold dicts down to the level given and other
\* values below it
RECURSIVE _deep_merge(_, _, _)
_deep_merge(base, override, level) ==
    [key \in DOMAIN base \cup DOMAIN override |->
        IF key \notin DOMAIN override THEN base[key]
        ELSE IF key \in DOMAIN base /\ level > 0
             THEN _deep_merge(base[key], override[key], level - 1)
             ELSE override[key]]

\* config[section][key] = value, where the sections in shared are the dicts
\* that DEFAULT_CONFIG holds
Assign(h, shared, section, key, value) ==
    [ config |-> [h.config EXCEPT ![section][key] = value],
      defaults |-> IF section \in shared
                   THEN [h.defaults EXCEPT ![section][key] = value]
                   ELSE h.defaults ]

\* the loop over ENV_OVERRIDES up to the variable that cannot be applied
EnvApplied(h, shared, env) ==
    LET h1 == IF env.KCM_CORPUS_ROOT # None
              THEN Assign(h, shared, "corpus", "root_path", env.KCM_CORPUS_ROOT[1]) ELSE h
        h2 == IF env.KCM_DATABASE_PATH # None
              THEN Assign(h1, shared, "database", "path", env.KCM_DATABASE_PATH[1]) ELSE h1
    IN  IF env.KCM_PORT # None /\ int(env.KCM_PORT[1]) # None
        THEN Assign(h2, shared, "server", "port", int(env.KCM_PORT[1])[1])
        ELSE h2

\* the three assignments that expand "~"
Expanded(h, shared) ==
    LET h1 == Assign(h, shared, "database", "path", Expanduser(h.config.database.path))
        h2 == Assign(h1, shared, "consolidation", "output_dir",
                     Expanduser(h1.config.consolidation.output_dir))
    IN  IF h2.config.corpus.root_path # << >>
        THEN Assign(h2, shared, "corpus", "root_path", Expanduser(h2.config.corpus.root_path))
        ELSE h2

\* the YAML file is not there
NoYaml == [exists |-> FALSE, config |-> << >>]

Yaml(config) == [exists |-> TRUE, config |-> config]

\* load_config against the DEFAULT_CONFIG given: how the call ends, the dict
\* it returns and DEFAULT_CONFIG as the call leaves it
LoadConfig(defaults, yaml, env) ==
    LET shared == IF yaml.exists THEN DOMAIN defaults \ DOMAIN yaml.config
                  ELSE DOMAIN defaults
        merged == IF yaml.exists THEN _deep_merge(defaults, yaml.config, 1) ELSE defaults
        h == EnvApplied([config |-> merged, defaults |-> defaults], shared, env)
    IN  IF env.KCM_PORT # None /\ int(env.KCM_PORT[1]) = None
        THEN [kind |-> "ValueError", config |-> << >>, defaults |-> h.defaults]
        ELSE LET e == Expanded(h, shared)
             IN  [kind |-> "returned", config |-> e.config, defaults |-> e.defaults]

\* a call of load_config with the YAML file and the environment given
load_config(yaml, env) ==
    /\ LET res == LoadConfig(DEFAULT_CONFIG, yaml, env)
       IN  /\ DEFAULT_CONFIG' = res.defaults
           /\ loaded' = [kind |-> res.kind, yaml |-> yaml, env |-> env,
                         config |-> res.config]
    /\ UNCHANGED << disk, rootIsDir, db, sess, pc, mode, items, seen_paths, stats,
                    outcome, runs, fsOps, obs, yielded, trace, cli, export, store, web >>

\* what the YAML file and the environment are drawn from
YamlFiles ==
    { NoYaml,
      Yaml(<< >>),
      Yaml([corpus |-> [root_path |-> << "~", "/", "c" >>]]),
      Yaml([database |-> [path |-> << "/", "v", "/" >>]]),
      Yaml([server |-> [port |-> 8080]]) }

Environments ==
    [ KCM_CORPUS_ROOT : {None, Some(<< "~", "/", "r" >>)},
      KCM_DATABASE_PATH : {None, Some(<< "/", "d" >>)},
      KCM_PORT : {None, Some(<< " ", "8", "0" >>), Some(<< "8", "0", "p" >>)} ]

ConfigInit == ScenarioInit

ConfigNext == \E yaml \in YamlFiles, env \in Environments : load_config(yaml, env)

ConfigSpec == ConfigInit /\ [][ConfigNext]_vars

(***************************************************************************)
(* The search results route (src/app/routes/search.py): the query string   *)
(* is parsed by parse_search_params and the page is computed by            *)
(* execute_search.  A parameter of the query string is None when it is not *)
(* given and Some(str) when it is; the number of rows the query matches is *)
(* drawn.  Times are ticks in the model and a date is written as the       *)
(* numeral of its tick.                                                    *)
(***************************************************************************)
NoArgs ==
    [ filename |-> None, path_contains |-> None, extension |-> << >>, section |-> << >>,
      date_from |-> None, date_to |-> None, min_size |-> None, max_size |-> None,
      sort_by |-> None, sort_dir |-> None, page |-> None, per_page |-> None ]

\* args.get(key, default)
Get(args, key, default) == IF args[key] = None THEN default ELSE args[key][1]

VALID_SORT_COLUMNS ==
    {"file_name", "modified_at", "file_size_bytes", "file_path", "file_extension",
     "corpus_section"}

NonEmpty(e) == e # << >>

\* datetime.fromisoformat
fromisoformat(s) ==
    IF s = << >> \/ \E i \in 1..Len(s) : ~IsDigit(s[i]) THEN None ELSE Some(Decimal(s, 0))

parse_search_params(args) ==
    LET date_from == Strip(Get(args, "date_from", << >>))
        date_to == Strip(Get(args, "date_to", << >>))
        min_size == Strip(Get(args, "min_size", << >>))
        max_size == Strip(Get(args, "max_size", << >>))
        sort_by == Get(args, "sort_by", "file_name")
        sort_dir == Get(args, "sort_dir", "asc")
        page == IF args.page = None THEN Some(1) ELSE int(args.page[1])
        per_page == IF args.per_page = None THEN Some(25) ELSE int(args.per_page[1])
    IN  [ filename |-> Strip(Get(args, "filename", << >>)),
          path_contains |-> Strip(Get(args, "path_contains", << >>)),
          extensions |-> SelectSeq(args.extension, NonEmpty),
          sections |-> SelectSeq(args.section, NonEmpty),
          date_from |-> IF date_from # << >> THEN fromisoformat(date_from) ELSE None,
          date_to |-> IF date_to # << >> THEN fromisoformat(date_to) ELSE None,
          min_size |-> IF min_size # << >> THEN int(min_size) ELSE None,
          max_size |-> IF max_size # << >> THEN int(max_size) ELSE None,
          sort_by |-> IF sort_by \in VALID_SORT_COLUMNS THEN sort_by ELSE "file_name",
          sort_dir |-> IF sort_dir \in {"asc", "desc"} THEN sort_dir ELSE "asc",
          page |-> IF page = None THEN 1 ELSE Max(1, page[1]),
          per_page |-> IF per_page = None THEN 25 ELSE Min(100, Max(1, per_page[1])) ]

\* a request for /search/results arrives, whose query matches total rows
Request(args, total) ==
    /\ web.kind = "none"
    /\ web' = [kind |-> "asked", args |-> args, total |-> total, params |-> << >>,
               results |-> << >>]
    /\ UNCHANGED << disk, rootIsDir, db, sess, pc, mode, items, seen_paths, stats,
                    outcome, runs, fsOps, obs, yielded, trace, cli, export, store,
                    DEFAULT_CONFIG, loaded >>

\* search_results on the request that has arrived
search_results ==
    /\ web.kind = "asked"
    /\ LET params == parse_search_params(web.args)
           p == Paginate(params, web.total)
       IN  web' = [web EXCEPT
                      !.kind = "paged",
                      !.params = params,
                      !.results = [total |-> web.total, page |-> p.page,
                                   per_page |-> params.per_page, pages |-> p.pages,
                                   offset |-> p.offset, rows |-> p.rows]]
    /\ UNCHANGED << disk, rootIsDir, db, sess, pc, mode, items, seen_paths, stats,
                    outcome, runs, fsOps, obs, yielded, trace, cli, export, store,
                    DEFAULT_CONFIG, loaded >>

\* what page and per_page are drawn from
PageArgs ==
    { None, Some(<< "0" >>), Some(<< "2" >>), Some(<< "-", "3" >>), Some(<< "9", "9" >>),
      Some(<< "x" >>) }

PerPageArgs ==
    { None, Some(<< "0" >>), Some(<< "1" >>), Some(<< " ", "2" >>), Some(<< "-", "5" >>),
      Some(<< "1", "0", "0" >>), Some(<< "1", "0", "1" >>), Some(<< "2", ".", "5" >>) }

PageInit == ScenarioInit

\* one request, with any page, any per_page and any number of matches
PageNext ==
    \/ \E page \in PageArgs, per_page \in PerPageArgs, total \in 0..MaxTotal :
          Request([NoArgs EXCEPT !.page = page, !.per_page = per_page], total)
    \/ search_results

PageSpec == PageInit /\ [][PageNext]_vars

(***************************************************************************)
(* Vocabulary of the claims.                                               *)
(***************************************************************************)
\* session r's last call was function m, it returned, and the corpus has not
\* changed since the call began
Returned(r, m) ==
    /\ pc[r] = "idle"
    /\ outcome[r].kind = "returned"
    /\ mode[r] = m
    /\ obs[r].quiet

\* the files under the corpus root that pass the hidden-path, skip-pattern and
\* extension rules
EligibleFiles == {f \in Universe : FileExists(f, disk, rootIsDir) /\ RuleTable[f]}

EligiblePaths == {JoinParts(f) : f \in EligibleFiles}

\* those of them whose bytes can be read
HashablePaths == {JoinParts(f) : f \in {g \in EligibleFiles : disk[g].readable}}

OneEntryPerPath(rows) == \A x, y \in rows : x.file_path = y.file_path => x = y

EntryOf(rows, p) == CHOOSE x \in rows : x.file_path = p

DigestAt(p) ==
    LET f == CHOOSE g \in Universe : JoinParts(g) = p
    IN  compute_file_hash(disk[f].content)

(***************************************************************************)
(* C1 as stated: after index_corpus returns, the catalog's paths are       *)
(* exactly the eligible files under the root, one entry each.              *)
(***************************************************************************)
C1_CatalogEqualsEligible ==
    \A r \in Sessions :
        Returned(r, "full") =>
            /\ PathsOf(db) = EligiblePaths
            /\ OneEntryPerPath(db)

(***************************************************************************)
(* C1 amended: after index_corpus returns, the catalog's paths are exactly *)
(* the eligible files that were hashed in the run or already had an entry  *)
(* in the session's view when the run began, one entry each; an eligible   *)
(* file that cannot be hashed and has no entry gets none.                  *)
(***************************************************************************)
C1_CatalogEqualsHashedEligible ==
    \A r \in Sessions :
        Returned(r, "full") =>
            /\ PathsOf(db) =
                 HashablePaths \cup (EligiblePaths \cap PathsOf(obs[r].view0))
            /\ OneEntryPerPath(db)

\* a full sync has returned having removed a stale entry and leaving an
\* eligible, unreadable file without an entry
C1_Witness ==
    \E r \in Sessions :
        /\ Returned(r, "full")
        /\ EligiblePaths \ PathsOf(db) # {}
        /\ PathsOf(obs[r].view0) \ PathsOf(db) # {}


(***************************************************************************)
(* C2 as stated: a second index_corpus with no filesystem change since the *)
(* first returns new = 0, updated = 0, deleted = 0 and unchanged = total,  *)
(* and leaves the catalog as the first run left it.                        *)
(***************************************************************************)
C2_SecondRunAllUnchanged ==
    \A r \in Sessions :
        (Returned(r, "full") /\ obs[r].repeat) =>
            /\ outcome[r].stats.new = 0
            /\ outcome[r].stats.updated = 0
            /\ outcome[r].stats.deleted = 0
            /\ outcome[r].stats.unchanged = outcome[r].stats.total
            /\ db = obs[r].db0

(***************************************************************************)
(* C2 amended: a second index_corpus with no filesystem change since the   *)
(* first (the same files present, with the same bytes and the same         *)
(* readability) returns new = 0, updated = 0, deleted = 0 and unchanged =  *)
(* total minus the number of walked files whose hashing failed, and leaves *)
(* the catalog as the first run left it.                                   *)
(***************************************************************************)
C2_SecondRunIdempotent ==
    \A r \in Sessions :
        (Returned(r, "full") /\ obs[r].repeat) =>
            /\ outcome[r].stats.new = 0
            /\ outcome[r].stats.updated = 0
            /\ outcome[r].stats.deleted = 0
            /\ outcome[r].stats.unchanged =
                 outcome[r].stats.total - Cardinality(obs[r].failed)
            /\ outcome[r].stats.total = Cardinality(EligiblePaths)
            /\ db = obs[r].db0

\* the second of two full syncs over the same corpus has returned, one file
\* unchanged and another one unreadable in both
C2_Witness ==
    \E r \in Sessions :
        /\ Returned(r, "full")
        /\ obs[r].repeat
        /\ obs[r].failed # {}
        /\ outcome[r].stats.unchanged > 0

(***************************************************************************)
(* C3: in a sync run of either mode, a walked and hashed file that already *)
(* has an entry is classified updated exactly when the hash of its bytes   *)
(* differs from the hash stored in that entry, and unchanged otherwise;    *)
(* neither its size nor its timestamps enter the decision.                 *)
(***************************************************************************)
C3_HashIsSoleTrigger ==
    \A r \in Sessions :
        obs[r].quiet =>
            \A pc_ \in obs[r].class :
                LET p == pc_[1]
                    class == pc_[2]
                IN  IF p \in PathsOf(obs[r].view0)
                    THEN /\ class \in {"updated", "unchanged"}
                         /\ class = "updated" <=>
                              EntryOf(obs[r].view0, p).file_hash # Some(DigestAt(p))
                    ELSE class = "new"

\* in one run a file whose bytes changed (to bytes of the same size) was
\* classified updated and a file whose timestamps alone changed unchanged
C3_Witness ==
    \E r \in Sessions :
        /\ obs[r].quiet
        /\ \E f, g \in EligibleFiles :
              /\ << JoinParts(f), "updated" >> \in obs[r].class
              /\ EntryOf(obs[r].view0, JoinParts(f)).file_size_bytes = SizeOf(disk[f].content)
              /\ << JoinParts(g), "unchanged" >> \in obs[r].class
              /\ EntryOf(obs[r].view0, JoinParts(g)).modified_at # disk[g].mtime


(***************************************************************************)
(* C4: when index_corpus returns, every entry the session held at the      *)
(* start whose path the walk did not yield is gone, 'deleted' is the       *)
(* number of entries removed, and no entry whose path the walk yielded     *)
(* (hashed or not) is removed.                                             *)
(***************************************************************************)
C4_DeletionReconciliation ==
    \A r \in Sessions :
        Returned(r, "full") =>
            LET before == PathsOf(obs[r].view0)
                after == PathsOf(db)
            IN  /\ (before \ EligiblePaths) \cap after = {}
                /\ outcome[r].stats.deleted = Cardinality(before \ after)
                /\ (before \cap EligiblePaths) \subseteq after

\* a full sync has returned having removed one entry and kept another
C4_Witness ==
    \E r \in Sessions :
        /\ Returned(r, "full")
        /\ outcome[r].stats.deleted = 1
        /\ PathsOf(obs[r].view0) \cap PathsOf(db) # {}

(***************************************************************************)
(* C5: the commit of reindex_changed removes no path from the catalog (an  *)
(* entry whose file is gone from disk stays), and the statistics it        *)
(* returns have no 'deleted' key.                                          *)
(***************************************************************************)
C5_IncrementalNeverDeletes ==
    [][\A r \in Sessions :
          (mode[r] = "incremental" /\ pc[r] = "committing" /\ pc'[r] = "idle") =>
              /\ PathsOf(db) \subseteq PathsOf(db')
              /\ outcome'[r].kind = "returned" =>
                   DOMAIN outcome'[r].stats = {"new", "updated", "unchanged", "total"}]_vars

\* reindex_changed has returned and the catalog still holds the entry of a
\* file that is no longer on disk
C5_Witness ==
    \E r \in Sessions :
        /\ Returned(r, "incremental")
        /\ PathsOf(db) \ EligiblePaths # {}
        /\ PathsOf(db) \cap EligiblePaths # {}

(***************************************************************************)
(* C6: when the corpus root is not a directory, a sync call changes        *)
(* nothing in the catalog and ends in a failure, not in a statistics       *)
(* record.                                                                 *)
(***************************************************************************)
C6_MissingRootFails ==
    \A r \in Sessions :
        (pc[r] = "idle" /\ obs[r].quiet /\ ~rootIsDir /\ outcome[r].kind # "none") =>
            /\ outcome[r].kind = "raised"
            /\ db = obs[r].db0

(***************************************************************************)
(* C7: if a file with an entry is yielded by the walk of index_corpus and  *)
(* hashing it fails, then after the run the entry is still in the catalog  *)
(* with every field as it was when the run began.                          *)
(***************************************************************************)
C7_HashFailureKeepsEntry ==
    \A r \in Sessions :
        Returned(r, "full") =>
            \A x \in obs[r].view0 : x.file_path \in obs[r].failed => x \in db

\* a full sync has returned after failing to hash a file that had an entry
C7_Witness ==
    \E r \in Sessions :
        /\ Returned(r, "full")
        /\ \E x \in obs[r].view0 : x.file_path \in obs[r].failed /\ x \in db

(***************************************************************************)
(* C8: no per-file I/O error on a walked file (an unreadable file, or a    *)
(* file that vanished after the directory listing) makes a sync call       *)
(* raise.                                                                  *)
(***************************************************************************)
C8_PerFileErrorsAbsorbed ==
    \A r \in Sessions :
        outcome[r].kind = "raised" => outcome[r].error # "FileNotFoundError"

(***************************************************************************)
(* C9: the committed catalog, which is what a concurrent reader sees,      *)
(* changes only in the commit that ends a run, and that commit installs    *)
(* all of the run's pending inserts, updates and deletes at once.          *)
(***************************************************************************)
C9_AtomicVisibility ==
    [][db' # db =>
          \E r \in Sessions :
              /\ pc[r] = "committing"
              /\ pc'[r] = "idle"
              /\ db' = View(sess[r])
              /\ sess'[r] = EmptySession]_vars

\* a run is about to commit an update and a delete, neither visible yet in
\* the committed catalog
C9_Witness ==
    \E r \in Sessions :
        /\ pc[r] = "committing"
        /\ sess[r].upd # {}
        /\ sess[r].del # {}
        /\ \A x \in sess[r].upd : x \notin db
        /\ sess[r].del \subseteq PathsOf(db)

(***************************************************************************)
(* C10: what a failed sync call left pending is rolled back: no later      *)
(* commit on the same session persists a row that call had pending.        *)
(***************************************************************************)
C10_FailedRunRolledBack ==
    \A r \in Sessions :
        (pc[r] = "idle" /\ outcome[r].kind = "returned" /\ obs[r].quiet) =>
            \A x \in obs[r].view0 \ obs[r].db0 : x \notin db

(***************************************************************************)
(* C11: the statistics a sync run returns have total equal to the number   *)
(* of records the walker yielded, which is the number of files under the   *)
(* root that pass the eligibility rules (rejected files are not counted),  *)
(* and total = new + updated + unchanged + the number of walked files      *)
(* whose hashing failed, each class counting the files classified so; in   *)
(* full mode deleted counts the entries removed and is no part of total.   *)
(***************************************************************************)
ClassCount(r, class) == Cardinality({c \in obs[r].class : c[2] = class})

C11_StatisticsAccounting ==
    \A r \in Sessions :
        (pc[r] = "idle" /\ outcome[r].kind = "returned" /\ obs[r].quiet) =>
            LET st == outcome[r].stats
            IN  /\ st.total = Cardinality(EligiblePaths)
                /\ st.total = Cardinality(obs[r].class) + Cardinality(obs[r].failed)
                /\ st.total = st.new + st.updated + st.unchanged
                                + Cardinality(obs[r].failed)
                /\ st.new = ClassCount(r, "new")
                /\ st.updated = ClassCount(r, "updated")
                /\ st.unchanged = ClassCount(r, "unchanged")
                /\ mode[r] = "full" =>
                     st.deleted = Cardinality(PathsOf(obs[r].view0) \ PathsOf(db))

\* a full sync has returned that walked one file, failed to hash it and
\* deleted the entry of another, with files the rules reject in the corpus
C11_Witness ==
    \E r \in Sessions :
        /\ Returned(r, "full")
        /\ outcome[r].stats.total = 1
        /\ Cardinality(obs[r].failed) = 1
        /\ outcome[r].stats.deleted = 1
        /\ \E f \in Universe : FileExists(f, disk, rootIsDir) /\ ~RuleTable[f]

(***************************************************************************)
(* C12: from an empty catalog and a corpus of a.md and notes/b.txt, the    *)
(* first index_corpus returns {new 2, updated 0, unchanged 0, deleted 0,   *)
(* total 2} and stores section "notes" for notes/b.txt and none for a.md;  *)
(* a second call with no change returns {new 0, updated 0, unchanged 2,    *)
(* deleted 0, total 2}; after a.md is removed a third call returns {new 0, *)
(* updated 0, unchanged 1, deleted 1, total 1} and the catalog holds       *)
(* notes/b.txt alone.                                                      *)
(***************************************************************************)
Kinds(log) == [i \in 1..Len(log) |-> log[i].kind]

IsPrefix(p, q) == Len(p) <= Len(q) /\ SubSeq(q, 1, Len(p)) = p

StatsOf(n, u, c, d, t) ==
    [new |-> n, updated |-> u, unchanged |-> c, deleted |-> d, total |-> t]

P_a_md == JoinParts(F_a_md)

P_notes_b_txt == JoinParts(F_notes_b_txt)

C12_ThreeRunScenario ==
    /\ IsPrefix(<< "called", "returned" >>, Kinds(trace)) =>
          /\ trace[2].stats = StatsOf(2, 0, 0, 0, 2)
          /\ PathsOf(trace[2].catalog) = {P_a_md, P_notes_b_txt}
          /\ Cardinality(trace[2].catalog) = 2
          /\ EntryOf(trace[2].catalog, P_notes_b_txt).corpus_section
                = Some(<< "n", "o", "t", "e", "s" >>)
          /\ EntryOf(trace[2].catalog, P_a_md).corpus_section = None
    /\ IsPrefix(<< "called", "returned", "called", "returned" >>, Kinds(trace)) =>
          /\ trace[4].stats = StatsOf(0, 0, 2, 0, 2)
          /\ trace[4].catalog = trace[2].catalog
    /\ ( /\ IsPrefix(<< "called", "returned", "called", "returned", "removed",
                        "called", "returned" >>, Kinds(trace))
         /\ trace[5].file = P_a_md ) =>
          /\ trace[7].stats = StatsOf(0, 0, 1, 1, 1)
          /\ PathsOf(trace[7].catalog) = {P_notes_b_txt}
          /\ Cardinality(trace[7].catalog) = 1

\* the third call of the scenario has returned
C12_Witness ==
    /\ Kinds(trace) = << "called", "returned", "called", "returned", "removed",
                         "called", "returned" >>
    /\ trace[5].file = P_a_md
    /\ db = trace[7].catalog

(***************************************************************************)
(* C13: an exhausted walk_corpus has yielded one record for each entry     *)
(* below the root that is not a directory, has no component of its         *)
(* relative path (the file name or an ancestor directory) starting with    *)
(* ".", has a base name matching no skip pattern and has its extension,    *)
(* lower-cased, among the supported ones, and for no other entry; the      *)
(* extension of a record is the lower-cased one, so X.MD is yielded with   *)
(* extension ".md".                                                        *)
(***************************************************************************)
Entries == IF rootIsDir THEN Rglob(disk) ELSE {}

SkipPatternSet == {DEFAULT_SKIP_PATTERNS[k] : k \in 1..Len(DEFAULT_SKIP_PATTERNS)}

SupportedSet == {DEFAULT_SUPPORTED_EXTENSIONS[k] : k \in 1..Len(DEFAULT_SUPPORTED_EXTENSIONS)}

ShouldYield(e) ==
    /\ e \notin Dirs(disk)
    /\ \A k \in 1..Len(e) : e[k][1] # "."
    /\ \A pat \in SkipPatternSet : ~Fnmatch(e[Len(e)], pat)
    /\ StrLower(Suffix(e[Len(e)])) \in SupportedSet

YieldedSet(r) == {yielded[r][i] : i \in 1..Len(yielded[r])}

C13_WalkerEligibility ==
    \A r \in Sessions :
        /\ \A rec \in YieldedSet(r) :
              /\ rec.absolute_path \in Entries
              /\ ShouldYield(rec.absolute_path)
              /\ rec.file_extension = StrLower(Suffix(rec.file_name))
              /\ rec.file_extension \in SupportedSet
        /\ pc[r] = "exhausted" =>
              /\ {rec.absolute_path : rec \in YieldedSet(r)} = {e \in Entries : ShouldYield(e)}
              /\ Len(yielded[r]) = Cardinality(YieldedSet(r))
              /\ T_X_MD \in Entries =>
                    \E rec \in YieldedSet(r) :
                        /\ rec.absolute_path = T_X_MD
                        /\ rec.file_extension = << ".", "m", "d" >>

\* a walk is exhausted that yielded X.MD with extension ".md", over a tree
\* with a directory whose name passes every rule on names, a hidden file,
\* a file below a hidden directory, a file whose name matches a skip
\* pattern and a file with an unsupported extension
C13_Witness ==
    \E r \in Sessions :
        /\ pc[r] = "exhausted"
        /\ \E rec \in YieldedSet(r) :
              rec.absolute_path = T_X_MD /\ rec.file_extension = << ".", "m", "d" >>
        /\ {T_arch_md_e_md, F_git_c_md, F_lock_xlsx, F_run_py} \subseteq Entries
        /\ RuleTable[<< T_arch_md_e_md[1] >>]

Slashes(p) == {i \in 1..Len(p) : p[i] = "/"}

BeforeFirstSlash(p) ==
    LET i == CHOOSE j \in Slashes(p) : \A k \in Slashes(p) : j <= k
    IN  SubSeq(p, 1, i - 1)

C15_SectionDerivedFromPath ==
    \A r \in Sessions :
        \A x \in db \cup View(sess[r]) :
            /\ IF Slashes(x.file_path) # {}
               THEN x.corpus_section = Some(BeforeFirstSlash(x.file_path))
               ELSE x.corpus_section = None
            /\ x.corpus_section = None <=> x.parent_dir = << >>
            /\ x.file_path = JoinParts(T_docs_guides_setup_md) =>
                  x.corpus_section = Some(<< "d", "o", "c", "s" >>)
            /\ x.file_path = JoinParts(T_readme_txt) => x.corpus_section = None

\* a sync run has returned that updated the entry of docs/guides/setup.md,
\* and the catalog holds it with section "docs" and readme.txt with none
C15_Witness ==
    \E r \in Sessions :
        /\ pc[r] = "idle" /\ outcome[r].kind = "returned" /\ obs[r].quiet
        /\ << JoinParts(T_docs_guides_setup_md), "updated" >> \in obs[r].class
        /\ \E x, y \in db :
              /\ x.file_path = JoinParts(T_docs_guides_setup_md)
              /\ x.corpus_section = Some(<< "d", "o", "c", "s" >>)
              /\ x.parent_dir = JoinParts(Front(T_docs_guides_setup_md))
              /\ y.file_path = JoinParts(T_readme_txt)
              /\ y.corpus_section = None

(***************************************************************************)
(* C16: the walk is deterministic and restartable.  Over an unchanged      *)
(* tree every invocation of walk_corpus yields its records in ascending    *)
(* order of path, two invocations that are both exhausted have yielded     *)
(* the same sequence, and of two invocations in progress, interleaved in   *)
(* any way, one has yielded a prefix of what the other has: no invocation  *)
(* moves the cursor of another.                                            *)
(***************************************************************************)
C16_WalkDeterministic ==
    \A r, q \in Sessions :
        /\ \A i \in 1..(Len(yielded[r]) - 1) :
              PartsLess(yielded[r][i].absolute_path, yielded[r][i + 1].absolute_path)
        /\ (pc[r] = "exhausted" /\ pc[q] = "exhausted") => yielded[r] = yielded[q]
        /\ IsPrefix(yielded[r], yielded[q]) \/ IsPrefix(yielded[q], yielded[r])
        /\ pc[r] = "exhausted" =>
              Len(yielded[r]) = Cardinality({e \in Entries : ShouldYield(e)})

\* two interleaved invocations are both exhausted, each having yielded
\* the same four records or more
C16_Witness ==
    /\ \A r \in Sessions : pc[r] = "exhausted" /\ Len(yielded[r]) >= 4
    /\ yielded["s1"] = yielded["s2"]

(***************************************************************************)
(* C17 as stated: a file whose hashing fails during index_corpus is left   *)
(* out of seen_paths, and an entry it had before the run is deleted by     *)
(* the deletion pass of the same run.                                      *)
(***************************************************************************)
InFullRun(r) == mode[r] = "full" /\ pc[r] \in {"walking", "committing"} /\ obs[r].quiet

C17_HashFailureNotSeen ==
    \A r \in Sessions :
        /\ InFullRun(r) => obs[r].failed \cap seen_paths[r] = {}
        /\ Returned(r, "full") =>
              \A x \in obs[r].view0 :
                  x.file_path \in obs[r].failed => x.file_path \notin PathsOf(db)

(***************************************************************************)
(* C17 amended: a file whose hashing fails during index_corpus is in       *)
(* seen_paths all the same, its path being added before the file is        *)
(* hashed; an entry it had before the run is left un-updated, is not       *)
(* among the entries the deletion pass deletes, and is in the catalog      *)
(* with its old hash when the run has returned.                            *)
(***************************************************************************)
C17_HashFailureSeen ==
    \A r \in Sessions :
        /\ InFullRun(r) =>
              /\ obs[r].failed \subseteq seen_paths[r]
              /\ obs[r].failed \cap sess[r].del = {}
        /\ Returned(r, "full") =>
              \A x \in obs[r].view0 :
                  x.file_path \in obs[r].failed =>
                      /\ x.file_path \in PathsOf(db)
                      /\ EntryOf(db, x.file_path).file_hash = x.file_hash

\* the deletion pass of a full sync has run: it deleted the entry of a file
\* that is gone and kept the entry of a file whose hashing had failed
C17_Witness ==
    \E r \in Sessions :
        /\ InFullRun(r)
        /\ pc[r] = "committing"
        /\ sess[r].del # {}
        /\ \E x \in obs[r].view0 :
              /\ x.file_path \in obs[r].failed
              /\ x.file_path \in seen_paths[r]
              /\ x \in View(sess[r])

(***************************************************************************)
(* C18: an entry classified unchanged is not touched.  From the moment a   *)
(* run of either mode classifies a walked file unchanged, through the      *)
(* rest of the run and after its return, the file's entry has every field  *)
(* (size, parent, section, created_at, modified_at, indexed_at and the     *)
(* others) as it was when the run began.                                   *)
(***************************************************************************)
C18_UnchangedUntouched ==
    \A r \in Sessions :
        ( /\ obs[r].quiet
          /\ \/ pc[r] \in {"walking", "committing"}
             \/ pc[r] = "idle" /\ outcome[r].kind = "returned" ) =>
            \A c \in obs[r].class :
                c[2] = "unchanged" =>
                    /\ c[1] \in PathsOf(obs[r].view0)
                    /\ \A x \in View(sess[r]) :
                          x.file_path = c[1] => x = EntryOf(obs[r].view0, c[1])
                    /\ c[1] \in PathsOf(View(sess[r]))

\* a full sync has returned that classified unchanged a file whose
\* timestamps on disk are later than those of its entry
C18_Witness ==
    \E r \in Sessions :
        /\ Returned(r, "full")
        /\ \E f \in EligibleFiles :
              /\ << JoinParts(f), "unchanged" >> \in obs[r].class
              /\ EntryOf(db, JoinParts(f)).modified_at < disk[f].mtime
              /\ EntryOf(db, JoinParts(f)).indexed_at < Now - 1

(***************************************************************************)
(* C19: relative_path is immutable.  A pending update is always that of a  *)
(* path the committed catalog holds, so no sync operation moves an entry   *)
(* to another path; and when a file is renamed from p to q, its bytes      *)
(* unchanged, between an index_corpus that returned and the next one, the  *)
(* next one removes the entry of p and inserts a fresh entry for q: it     *)
(* returns deleted = 1, new = 1 and updated = 0 and leaves every other     *)
(* entry as it was.                                                        *)
(***************************************************************************)
RenameThenSync(i) ==
    /\ i + 4 <= Len(trace)
    /\ SubSeq(Kinds(trace), i, i + 4)
         = << "called", "returned", "renamed", "called", "returned" >>

C19_RenameIsDeleteThenCreate ==
    /\ \A r \in Sessions : \A u \in sess[r].upd : u.file_path \in PathsOf(db)
    /\ \A i \in 1..Len(trace) :
          RenameThenSync(i) =>
              LET before == trace[i + 1].catalog
                  after == trace[i + 4].catalog
                  st == trace[i + 4].stats
                  p == trace[i + 2].file
                  q == trace[i + 2].to
              IN  /\ p \in PathsOf(before) /\ q \notin PathsOf(before)
                  /\ p \notin PathsOf(after) /\ q \in PathsOf(after)
                  /\ st.deleted = 1 /\ st.new = 1 /\ st.updated = 0
                  /\ EntryOf(after, q).file_hash = EntryOf(before, p).file_hash
                  /\ EntryOf(after, q).indexed_at > EntryOf(before, p).indexed_at
                  /\ \A x \in before : x.file_path # p => x \in after

\* a file has been renamed between two full syncs and the second one has
\* returned
C19_Witness ==
    \E i \in 1..Len(trace) :
        /\ RenameThenSync(i)
        /\ i + 4 = Len(trace)
        /\ db = trace[i + 4].catalog
        /\ trace[i + 2].to \in PathsOf(db)

(***************************************************************************)
(* C20: execute_search returns a dictionary with the keys items, total,    *)
(* page, per_page and pages, and the search command of the CLI, run when   *)
(* at least one file matches, does not end in a missing-key error.         *)
(***************************************************************************)
C20_SearchReturnsDocumentedKeys ==
    (cli.kind # "none" /\ cli.results.total > 0) =>
        /\ DOMAIN cli.results = {"items", "total", "page", "per_page", "pages"}
        /\ cli.kind # "KeyError"

(***************************************************************************)
(* C21: a call of consolidate_files with an output_format other than       *)
(* "markdown", "json" and "text" raises ValueError and has no other        *)
(* effect: it runs no catalog query, creates no output directory and no    *)
(* output file, adds and commits no ConsolidationJob, and leaves the       *)
(* catalog and the session as they were.                                   *)
(***************************************************************************)
C21_UnsupportedFormatHasNoEffect ==
    [][ ( /\ export'.calls # export.calls
          /\ export'.last.output_format \notin {"markdown", "json", "text"} ) =>
            /\ export'.last.kind = "ValueError"
            /\ export'.queries = export.queries
            /\ export'.dirs = export.dirs
            /\ export'.files = export.files
            /\ export'.jobs = export.jobs
            /\ db' = db
            /\ sess' = sess ]_vars

\* "Markdown" was refused, over a filled catalog and after an export that was
\* carried out, whose directory, file and job are all there is
C21_Witness ==
    /\ export.last.kind = "ValueError"
    /\ export.last.output_format = "Markdown"
    /\ export.calls = 2
    /\ export.queries = 1
    /\ db # {}
    /\ Cardinality(export.files) = 1
    /\ Cardinality(export.jobs) = 1
    /\ export.dirs = {OutputDir}

(***************************************************************************)
(* C22: when index_corpus has returned from a run in which no hashing      *)
(* failed, every entry of the catalog is the entry of a file of the corpus *)
(* and its file_hash is the hash of the bytes that file holds, whatever    *)
(* the catalog held before the run: no hash, the hash of other bytes, or   *)
(* entries of files the walker does not yield.                             *)
(***************************************************************************)
C22_HashConvergence ==
    \A r \in Callers :
        (Returned(r, "full") /\ obs[r].failed = {}) =>
            \A x \in db :
                /\ x.file_path \in EligiblePaths
                /\ x.file_hash = Some(DigestAt(x.file_path))

\* a run that hashed every file has returned; the catalog it found held an
\* entry without a hash, one with the hash of other bytes and one of run.py
C22_Witness ==
    \E r \in Callers :
        /\ Returned(r, "full")
        /\ obs[r].failed = {}
        /\ \E x \in obs[r].db0 : x.file_path \in EligiblePaths /\ x.file_hash = None
        /\ \E x \in obs[r].db0 :
              /\ x.file_path \in EligiblePaths
              /\ x.file_hash \notin {None, Some(DigestAt(x.file_path))}
        /\ JoinParts(F_run_py) \in PathsOf(obs[r].db0)
        /\ db # {}

(***************************************************************************)
(* C23: when two sessions run syncs (full or incremental) with no caller   *)
(* discipline over a corpus that does not change, the committed catalog    *)
(* never holds two entries with the same relative path, and once both      *)
(* sessions have made a call and no call is in progress, every eligible    *)
(* file has exactly one entry.  As stated, for every eligible file:        *)
(***************************************************************************)
C23_ConcurrentRunsOneEntryPerFile ==
    /\ OneEntryPerPath(db)
    /\ store.twice = {}
    /\ (\A r \in Sessions : pc[r] = "idle" /\ outcome[r].kind # "none") =>
          \A p \in EligiblePaths : Cardinality({x \in db : x.file_path = p}) = 1

\* C23 as the engine keeps it: every eligible file whose bytes can be read has
\* exactly one entry, and so has every eligible file that had one before; an
\* unreadable file that had none still has none
C23_ConcurrentRunsOneEntryPerHashedFile ==
    /\ OneEntryPerPath(db)
    /\ store.twice = {}
    /\ (\A r \in Sessions : pc[r] = "idle" /\ outcome[r].kind # "none") =>
          /\ \A p \in HashablePaths : Cardinality({x \in db : x.file_path = p}) = 1
          /\ \A p \in EligiblePaths \ HashablePaths :
                Cardinality({x \in db : x.file_path = p}) <= 1

\* both sessions ran over the empty catalog at once: one returned, the other
\* raised on the row it had pending for a path the first had committed
C23_Witness ==
    /\ \A r \in Sessions : pc[r] = "idle"
    /\ outcome["s1"].kind = "returned"
    /\ outcome["s2"].kind = "raised"
    /\ outcome["s2"].error = "IntegrityError"
    /\ outcome["s1"].stats.new = Cardinality(EligiblePaths)
    /\ PathsOf(db) = EligiblePaths
    /\ Cardinality(db) >= 2

(***************************************************************************)
(* C24: load_config never modifies DEFAULT_CONFIG: after any sequence of   *)
(* calls, with any YAML file and any environment, DEFAULT_CONFIG and its   *)
(* nested sections are as they were when the module was imported, and the  *)
(* dict a call returns is the one that call's YAML file and environment    *)
(* give over the initial defaults, whatever calls were made before.        *)
(***************************************************************************)
C24_DefaultConfigNeverModified ==
    /\ DEFAULT_CONFIG = Defaults
    /\ loaded.kind = "returned" =>
          loaded.config = LoadConfig(Defaults, loaded.yaml, loaded.env).config

(***************************************************************************)
(* C25: for the parameters parse_search_params gives and any number of     *)
(* matching rows, per_page is between 1 and 100, the number of pages is    *)
(* max(1, ceil(total / per_page)), the page shown is between 1 and the     *)
(* number of pages, and whenever a row matches, the offset of the page is  *)
(* below the number of matches and the page holds at least one row.        *)
(***************************************************************************)
CeilDiv(a, b) == CHOOSE n \in 0..a : n * b >= a /\ (n = 0 \/ (n - 1) * b < a)

C25_PaginationBounds ==
    web.kind = "paged" =>
        /\ web.params.per_page \in 1..100
        /\ web.params.page >= 1
        /\ web.results.per_page = web.params.per_page
        /\ web.results.pages = Max(1, CeilDiv(web.total, web.params.per_page))
        /\ web.results.page \in 1..web.results.pages
        /\ web.results.offset = (web.results.page - 1) * web.results.per_page
        /\ web.total > 0 =>
              /\ web.results.offset < web.total
              /\ web.results.rows >= 1

\* per_page=101 became 100 and page=99 became the last of three pages, which
\* holds the last row of more than two hundred
C25_Witness ==
    /\ web.kind = "paged"
    /\ web.args.per_page = Some(<< "1", "0", "1" >>)
    /\ web.args.page = Some(<< "9", "9" >>)
    /\ web.params.per_page = 100
    /\ web.params.page = 99
    /\ web.total > 200
    /\ web.results.pages = 3
    /\ web.results.page = 3
    /\ web.results.rows >= 1

====
